---- MODULE Spec2Model ----
(***************************************************************************)
(* A model of cicd-branch-tool.js: the cycle clock, the status store, the  *)
(* FullCycle flow (createBranches), the merge sweep (mergeBranches), the   *)
(* retention sweep and the command handlers `run`, `workflow` and `init`.  *)
(*                                                                         *)
(* Dates.  A date string "yyyy-MM-dd" is the integer yyyymmdd (its digits),*)
(* 0 is the absent (undefined) string.  A JavaScript Date is a record      *)
(* [valid, day]: day counts calendar days since 2025-01-01, valid = FALSE  *)
(* is the Invalid Date that date-fns' parse returns for a string that does *)
(* not parse.                                                              *)
(*                                                                         *)
(* Branch names.  A name is a record [lit, pfx, date]: a date-named branch *)
(* has lit = "" and date = the date string, with pfx the configured        *)
(* prefix; any other branch is a literal.  NullBranch is JavaScript null.  *)
(***************************************************************************)
EXTENDS Integers, Sequences, FiniteSets, TLC

(* ------------------------------ bounds -------------------------------- *)

\* first wall-clock day of the model, counted from 2025-01-01 (2025-02-26)
FirstDay == 56
\* number of days the wall clock may advance
MaxDay == 4
\* largest cycle length (in days) drawn for the cycle-clock functions
MaxCycleDays == 3

(* ----------------------------- calendar ------------------------------- *)

NoDate == 0

IsLeapYear(y) == (y % 4 = 0 /\ y % 100 # 0) \/ y % 400 = 0

DaysInMonth(y, m) ==
    IF m \in {4, 6, 9, 11} THEN 30
    ELSE IF m = 2 THEN (IF IsLeapYear(y) THEN 29 ELSE 28)
    ELSE 31

DaysInYear(y) == IF IsLeapYear(y) THEN 366 ELSE 365

RECURSIVE DaysBeforeMonth(_, _)
DaysBeforeMonth(y, m) ==
    IF m <= 1 THEN 0 ELSE DaysBeforeMonth(y, m - 1) + DaysInMonth(y, m - 1)

RECURSIVE DaysBeforeYear(_)
DaysBeforeYear(y) ==
    IF y <= 2025 THEN 0 ELSE DaysBeforeYear(y - 1) + DaysInYear(y - 1)

InvalidDate == [valid |-> FALSE, day |-> 0]

\* date-fns parse(string, "yyyy-MM-dd", ref): Invalid Date unless the month
\* and the day of the month exist
parse(s) ==
    LET y == s \div 10000
        m == (s \div 100) % 100
        d == s % 100
    IN  IF y >= 2025 /\ m \in 1..12 /\ d >= 1 /\ d <= DaysInMonth(y, m)
        THEN [valid |-> TRUE,
              day |-> DaysBeforeYear(y) + DaysBeforeMonth(y, m) + d - 1]
        ELSE InvalidDate

RECURSIVE FormatFrom(_, _, _)
FormatFrom(n, y, m) ==
    IF n >= DaysInYear(y) /\ m = 1 THEN FormatFrom(n - DaysInYear(y), y + 1, 1)
    ELSE IF n >= DaysInMonth(y, m) THEN FormatFrom(n - DaysInMonth(y, m), y, m + 1)
    ELSE y * 10000 + m * 100 + n + 1

\* date-fns format(date, "yyyy-MM-dd") of a valid date
format(date) == FormatFrom(date.day, 2025, 1)

addDays(date, n) ==
    IF date.valid THEN [valid |-> TRUE, day |-> date.day + n] ELSE InvalidDate

(* --------------------------- branch names ----------------------------- *)

NullBranch == [lit |-> "null", pfx |-> "", date |-> 0]
Lit(name) == [lit |-> name, pfx |-> "", date |-> 0]

\* `${config.branchPrefix}/${date}` or the date alone (lines 299, 840-842)
DateBranch(prefix, dateString) == [lit |-> "", pfx |-> prefix, date |-> dateString]

\* formatBranchName (lines 840-842) applied to a date string
formatBranchName(branchPrefix, dateString) == DateBranch(branchPrefix, dateString)

\* formatBranchName applied to a name that is not a date ("x1", "x2")
PrefixedLit(prefix, name) == [lit |-> name, pfx |-> prefix, date |-> 0]

(* --------------------------- cycle clock ------------------------------ *)

\* isExecutionDay with a strict comparison
isExecutionDay_strict(currentDate, cycleDays, lastCycleDate) ==
    IF lastCycleDate = NoDate THEN TRUE
    ELSE LET today == parse(currentDate)
             lastTime == parse(lastCycleDate)
         IN  today.valid /\ lastTime.valid
             /\ today.day - lastTime.day > cycleDays

isExecutionDay(currentDate, cycleDays, lastCycleDate) ==
    IF lastCycleDate = NoDate THEN TRUE
    ELSE LET today == parse(currentDate)
             lastTime == parse(lastCycleDate)
         IN  \* differenceInCalendarDays of an Invalid Date is NaN, and
             \* NaN >= cycleDays is false
             today.valid /\ lastTime.valid
             /\ today.day - lastTime.day >= cycleDays

\* SnapDays rounding up to the boundary that follows (Math.ceil)
SnapDays_ceil(dayDiff, cycleDays) ==
    (0 - ((0 - dayDiff) \div cycleDays)) * cycleDays

\* SnapDays rounding toward zero (Math.trunc): it differs from the floor
\* when today is earlier than lastCycleDate
SnapDays_trunc(dayDiff, cycleDays) ==
    IF dayDiff >= 0 THEN (dayDiff \div cycleDays) * cycleDays
    ELSE (0 - ((0 - dayDiff) \div cycleDays)) * cycleDays

\* Math.floor(dayDiff / cycleDays) * cycleDays; \div rounds toward minus
\* infinity as Math.floor does
SnapDays(dayDiff, cycleDays) == (dayDiff \div cycleDays) * cycleDays

\* calculateCycleDateInfo with the next boundary a week ahead, whatever
\* cycleDays is
calculateCycleDateInfo_week(lastCycleDate, currentDateString, cycleDays) ==
    LET today == parse(currentDateString)
        nextDate ==
            IF lastCycleDate # NoDate
            THEN LET last == parse(lastCycleDate)
                 IN  IF today.valid /\ last.valid
                     THEN addDays(last, SnapDays(today.day - last.day, cycleDays))
                     ELSE InvalidDate
            ELSE today
        aheadDate == addDays(nextDate, 7)
    IN  IF nextDate.valid
        THEN [threw |-> FALSE, current |-> format(nextDate), next |-> format(aheadDate)]
        ELSE [threw |-> TRUE, current |-> NoDate, next |-> NoDate]

\* The result of format() on an Invalid Date is a thrown RangeError.
calculateCycleDateInfo(lastCycleDate, currentDateString, cycleDays) ==
    LET today == parse(currentDateString)
        nextDate ==
            IF lastCycleDate # NoDate
            THEN LET last == parse(lastCycleDate)
                 IN  IF today.valid /\ last.valid
                     THEN addDays(last, SnapDays(today.day - last.day, cycleDays))
                     ELSE InvalidDate
            ELSE today
        aheadDate == addDays(nextDate, cycleDays)
    IN  IF nextDate.valid
        THEN [threw |-> FALSE, current |-> format(nextDate), next |-> format(aheadDate)]
        ELSE [threw |-> TRUE, current |-> NoDate, next |-> NoDate]

(* ---------------------------- status store ---------------------------- *)

\* A commit fingerprint: the content level of the commit (how many commits
\* of the root base branch it contains) and the branch on which the commit
\* was made (NullBranch: a developer's commit on the root base branch).
NoCommit == [lvl |-> 0 - 1, by |-> NullBranch]

\* A slot value, in the file or in memory: undefined, a flat string, or an
\* object {branch, commit?, latest?}.
UndefSlot == [kind |-> "undef", branch |-> NullBranch, commit |-> NoCommit, latest |-> NoCommit]
StrSlot(b) == [kind |-> "str", branch |-> b, commit |-> NoCommit, latest |-> NoCommit]
ObjSlot(b, c) == [kind |-> "obj", branch |-> b, commit |-> c, latest |-> NoCommit]

SlotKeys == <<"base", "uat", "pre", "pro">>

getBranchName(branchStatus) ==
    IF branchStatus.kind = "undef" THEN NullBranch
    ELSE IF branchStatus.kind = "str" THEN branchStatus.branch
    ELSE branchStatus.branch

extractBranchLatestCommit(branchStatus) ==
    IF branchStatus.kind = "obj" THEN branchStatus.commit ELSE NoCommit

updateBranchStatus(currentStatus, newBranchName, commitInfo) ==
    IF currentStatus.kind = "obj" /\ currentStatus.branch # NullBranch
    THEN [currentStatus EXCEPT
            !.branch = newBranchName,
            !.commit = IF commitInfo # NoCommit THEN commitInfo ELSE @]
    ELSE [kind |-> "obj", branch |-> newBranchName, commit |-> NoCommit,
          latest |-> commitInfo]

\* The status file: exists = FALSE when there is no file.  full = TRUE in
\* memory when _fullStatus holds the raw object that was loaded (raw below).
NoFile ==
    [exists |-> FALSE, base |-> UndefSlot, uat |-> UndefSlot, pre |-> UndefSlot,
     pro |-> UndefSlot, lastCycleDate |-> NoDate, aheadCycleDate |-> NoDate,
     hasBranches |-> FALSE, branches |-> <<>>]

\* `rawSlot || { branch: null }`
OrNullObj(rawSlot) == IF rawSlot.kind = "undef" THEN ObjSlot(NullBranch, NoCommit) ELSE rawSlot

\* `{ branch: rawSlot || null }`: a flat string becomes the branch; an
\* object (with no branch) would itself become the value of branch
WrapLegacy(rawSlot) ==
    IF rawSlot.kind = "undef" THEN ObjSlot(NullBranch, NoCommit)
    ELSE IF rawSlot.kind = "str" THEN ObjSlot(rawSlot.branch, NoCommit)
    ELSE ObjSlot(Lit("[object Object]"), NoCommit)

IsRichShape(raw) == raw.base.kind = "obj" /\ raw.base.branch # NullBranch

normalizeStatusFormat(raw) ==
    IF IsRichShape(raw)
    THEN [base |-> OrNullObj(raw.base), uat |-> OrNullObj(raw.uat),
          pre |-> OrNullObj(raw.pre), pro |-> OrNullObj(raw.pro),
          lastCycleDate |-> raw.lastCycleDate, aheadCycleDate |-> raw.aheadCycleDate,
          hasBranches |-> raw.hasBranches, branches |-> raw.branches,
          full |-> TRUE, raw |-> raw]
    ELSE [base |-> WrapLegacy(raw.base), uat |-> WrapLegacy(raw.uat),
          pre |-> WrapLegacy(raw.pre), pro |-> WrapLegacy(raw.pro),
          lastCycleDate |-> raw.lastCycleDate, aheadCycleDate |-> raw.aheadCycleDate,
          hasBranches |-> raw.hasBranches, branches |-> raw.branches,
          full |-> FALSE, raw |-> NoFile]

\* loadStatusFile: {} when the file does not exist
loadStatusFile(f) ==
    IF f.exists THEN normalizeStatusFormat(f)
    ELSE [base |-> UndefSlot, uat |-> UndefSlot, pre |-> UndefSlot, pro |-> UndefSlot,
          lastCycleDate |-> NoDate, aheadCycleDate |-> NoDate,
          hasBranches |-> FALSE, branches |-> <<>>, full |-> FALSE, raw |-> NoFile]

\* one slot of convertToSaveFormat under _fullStatus (lines 199-214)
SaveFullSlot(stateSlot, fullSlot) ==
    IF stateSlot.kind # "undef" /\ fullSlot.kind # "undef"
    THEN [kind |-> "obj", branch |-> getBranchName(stateSlot),
          commit |-> IF stateSlot.commit # NoCommit THEN stateSlot.commit
                     ELSE fullSlot.commit,
          latest |-> NoCommit]
    ELSE fullSlot

\* one slot of the new format structure, its fingerprint left out
SaveNewSlot_noCommit(stateSlot) ==
    [kind |-> "obj", branch |-> getBranchName(stateSlot), commit |-> NoCommit,
     latest |-> NoCommit]

\* one slot of the new format structure (lines 227-241)
SaveNewSlot(stateSlot) ==
    [kind |-> "obj", branch |-> getBranchName(stateSlot),
     commit |-> IF stateSlot.kind # "undef" THEN stateSlot.commit ELSE NoCommit,
     latest |-> NoCommit]

convertToSaveFormat(state) ==
    IF state.full
    THEN [exists |-> TRUE,
          base |-> SaveFullSlot(state.base, state.raw.base),
          uat |-> SaveFullSlot(state.uat, state.raw.uat),
          pre |-> SaveFullSlot(state.pre, state.raw.pre),
          pro |-> SaveFullSlot(state.pro, state.raw.pro),
          lastCycleDate |-> IF state.lastCycleDate # NoDate THEN state.lastCycleDate
                            ELSE state.raw.lastCycleDate,
          aheadCycleDate |-> IF state.aheadCycleDate # NoDate THEN state.aheadCycleDate
                             ELSE state.raw.aheadCycleDate,
          hasBranches |-> state.hasBranches \/ state.raw.hasBranches,
          branches |-> IF state.hasBranches THEN state.branches ELSE state.raw.branches]
    ELSE [exists |-> TRUE,
          base |-> SaveNewSlot(state.base), uat |-> SaveNewSlot(state.uat),
          pre |-> SaveNewSlot(state.pre), pro |-> SaveNewSlot(state.pro),
          lastCycleDate |-> state.lastCycleDate,
          aheadCycleDate |-> state.aheadCycleDate,
          hasBranches |-> state.hasBranches, branches |-> state.branches]

(* ------------------------- rotation targets --------------------------- *)

\* updateNextCycleBranches with the two replacements of lines 305-314 in the
\* other order: pro then takes the uat source that was already replaced
updateNextCycleBranches_swapped(branchPrefix, status, currentDateString, cycleDays, now) ==
    LET nextDate ==
            IF status.lastCycleDate # NoDate
            THEN LET today == parse(currentDateString)
                     last == parse(status.lastCycleDate)
                 IN  IF today.valid /\ last.valid
                     THEN addDays(last, SnapDays(today.day - last.day, cycleDays))
                     ELSE InvalidDate
            ELSE [valid |-> TRUE, day |-> now]
        aheadDate == addDays(nextDate, cycleDays)
        currentBranch == getBranchName(status.base)
        uatSource0 == getBranchName(status.uat)
        proSource0 == getBranchName(status.pro)
        uatSource == IF uatSource0 # currentBranch THEN currentBranch ELSE uatSource0
        proSource == IF proSource0 # uatSource THEN uatSource ELSE proSource0
    IN  IF nextDate.valid
        THEN [threw |-> FALSE,
              aheadCycleDate |-> format(aheadDate),
              nextCycleDate |-> format(nextDate),
              newBaseBranch |-> DateBranch(branchPrefix, format(nextDate)),
              currentBranch |-> currentBranch,
              uatSourceBranch |-> uatSource,
              proSourceBranch |-> proSource]
        ELSE [threw |-> TRUE, aheadCycleDate |-> NoDate, nextCycleDate |-> NoDate,
              newBaseBranch |-> NullBranch, currentBranch |-> currentBranch,
              uatSourceBranch |-> uatSource, proSourceBranch |-> proSource]

\* `now` is the reading of `new Date()` (a day number) at line 291.
updateNextCycleBranches(branchPrefix, status, currentDateString, cycleDays, now) ==
    LET nextDate ==
            IF status.lastCycleDate # NoDate
            THEN LET today == parse(currentDateString)
                     last == parse(status.lastCycleDate)
                 IN  IF today.valid /\ last.valid
                     THEN addDays(last, SnapDays(today.day - last.day, cycleDays))
                     ELSE InvalidDate
            ELSE [valid |-> TRUE, day |-> now]
        aheadDate == addDays(nextDate, cycleDays)
        currentBranch == getBranchName(status.base)
        uatSource0 == getBranchName(status.uat)
        proSource0 == getBranchName(status.pro)
        \* line 305: pro takes the uat target as it is before line 309
        proSource == IF proSource0 # uatSource0 THEN uatSource0 ELSE proSource0
        uatSource == IF uatSource0 # currentBranch THEN currentBranch ELSE uatSource0
    IN  IF nextDate.valid
        THEN [threw |-> FALSE,
              aheadCycleDate |-> format(aheadDate),
              nextCycleDate |-> format(nextDate),
              newBaseBranch |-> DateBranch(branchPrefix, format(nextDate)),
              currentBranch |-> currentBranch,
              uatSourceBranch |-> uatSource,
              proSourceBranch |-> proSource]
        ELSE [threw |-> TRUE, aheadCycleDate |-> NoDate, nextCycleDate |-> NoDate,
              newBaseBranch |-> NullBranch, currentBranch |-> currentBranch,
              uatSourceBranch |-> uatSource, proSourceBranch |-> proSource]

(* ----------------------------- constants ------------------------------ *)

\* ERROR_CODES (lines 79-87)
INVALID_COMMAND == 1
FILE_NOT_FOUND == 2
GIT_OPERATION_FAILED == 3
MISSING_BRANCHES == 5
INVALID_DATE == 7

\* DEFAULT_CONFIG branch names (lines 58-61)
baseBranch == Lit("base")
uatBranch == Lit("uat")
preBranch == Lit("pre")
proBranch == Lit("pro")

(* -------------------------- bounds of the runs ------------------------ *)

\* commits a developer may add to the root base branch
MaxCommits == 1
\* backend faults (a throwing command, a conflict, a rejected push) in one behaviour
MaxFaults == 1
\* invocations of the tool in one behaviour
MaxRuns == 3
\* dry-run invocations in one behaviour
MaxDryRuns == 1
\* invocations with a custom --date in one behaviour
MaxCustomDates == 1
\* branches of a next cycle that developers open ahead of its date
MaxAheadBranches == 1

(* ------------------------------- state -------------------------------- *)

VARIABLES
    clock,    \* the wall clock: days elapsed since FirstDay
    config,   \* the configuration loaded by loadConfig
    file,     \* the status file
    repo,     \* the git repository: local and remote branches and their heads
    pc,       \* position of the running command, "idle" between invocations
    status,   \* the in-memory status of the running command
    ctx,      \* locals of the running command
    ops,      \* the backend calls issued by the current / last invocation
    exit,     \* how the last invocation ended
    used,     \* what the behaviour may still use: invocations, faults, dry runs, custom dates, ahead branches
    hist,     \* targets persisted by the FullCycles saved so far
    fn        \* the last application of a cycle-clock function

vars == <<clock, config, file, repo, pc, status, ctx, ops, exit, used, hist, fn>>

Now == FirstDay + clock
\* getTodayString: format(new Date(), dateFormat)
getTodayString == format([valid |-> TRUE, day |-> Now])

(* --------------------------- the repository --------------------------- *)

Exists(r, b) == b \in r.local \/ b \in r.remote
HeadOf(r, b) == IF b \in DOMAIN r.head THEN r.head[b] ELSE NoCommit
SetHead(r, b, c) == [r EXCEPT !.head = (b :> c) @@ r.head]

\* GitOperations.branchExists / remoteBranchExists / localBranchesExists
branchExists(r, b) == b # NullBranch /\ Exists(r, b)
remoteBranchExists(r, b) == b # NullBranch /\ b \in r.remote
localBranchesExists(r, b) == b # NullBranch /\ b \in r.local

\* git checkout b succeeds on a local branch or on one the remote has
CanCheckout(r, b) == branchExists(r, b)
GitCheckout(r, b) == [r EXCEPT !.local = @ \cup {b}]

\* checkout + pull of createBranch/pull: the remote must have the branch
CanPull(r, b) == remoteBranchExists(r, b)

\* the repository after `git merge from` on `to`: a merge commit made on
\* `to` when `from` holds content that `to` lacks, else already up to date
GitMerge(r, to, from) ==
    LET r1 == GitCheckout(r, to)
    IN  IF HeadOf(r1, from).lvl > HeadOf(r1, to).lvl
        THEN SetHead(r1, to, [lvl |-> HeadOf(r1, from).lvl, by |-> to])
        ELSE r1

\* checkoutBranch(newBranch, fromBranch) and the empty marker commit
GitCreate(r, from, new) ==
    SetHead([r EXCEPT !.local = @ \cup {from, new}], new,
            [lvl |-> HeadOf(r, from).lvl, by |-> new])

GitPush(r, b) == [r EXCEPT !.remote = @ \cup {b}]

\* one logged backend call: ran = FALSE when the command did not reach the
\* repository (execute() in a dry run, createBranch on an existing branch);
\* ok is the success the caller saw; conflict = TRUE when the pull or the
\* merge command of a merge step ended in a conflict, reported in the result
\* or raised as an error; recover is what the backend then received
Op(name, to, from, noff, critical, ran, ok) ==
    [op |-> name, to |-> to, from |-> from, noFastForward |-> noff,
     critical |-> critical, ran |-> ran, ok |-> ok, recover |-> "none",
     conflict |-> FALSE]

(* ------------------------- the running command ----------------------- *)

NoRotation ==
    [threw |-> FALSE, aheadCycleDate |-> NoDate, nextCycleDate |-> NoDate,
     newBaseBranch |-> NullBranch, currentBranch |-> NullBranch,
     uatSourceBranch |-> NullBranch, proSourceBranch |-> NullBranch]

NoRepo == [local |-> {}, remote |-> {}, head |-> [b \in {} |-> NoCommit]]

\* pre, file0 and repo0 keep the status loaded, the status file and the
\* repository as they were when the command started; sweep keeps the status
\* as it was when mergeBranches built its list; rerun marks a `run` started
\* after a completed off-cycle `run` with no commit made in between
IdleCtx ==
    [cmd |-> "none", dry |-> FALSE, today |-> NoDate, supplied |-> NoDate,
     execDay |-> FALSE, i |-> 0, items |-> <<>>, rot |-> NoRotation,
     pre |-> loadStatusFile(NoFile), hasError |-> FALSE, cycled |-> FALSE,
     file0 |-> NoFile, repo0 |-> NoRepo, sweep |-> loadStatusFile(NoFile),
     rerun |-> FALSE]

\* heads: the heads of the branches when the command completed
Running == [code |-> 0 - 1, success |-> FALSE, saved |-> FALSE, heads |-> NoRepo.head]
Ended(code) == [code |-> code, success |-> FALSE, saved |-> FALSE, heads |-> NoRepo.head]
Completed(saved, r) ==
    [code |-> 0, success |-> TRUE, saved |-> saved, heads |-> r.head]

FaultOK == used.faults > 0
Fault == [used EXCEPT !.faults = @ - 1]

\* process.exit(code), or an exception caught by the command's action
\* wrapper (lines 1294-1299), which exits with code 1
Die(code) == pc' = "idle" /\ exit' = Ended(code)

Log(o) == ops' = Append(ops, o)

\* --- command handlers: the part before the first backend call --------

\* `run` (lines 1177-1187)
RunStart(date, dry) ==
    /\ pc = "idle" /\ used.runs > 0
    /\ dry => used.dry > 0
    /\ date # NoDate => used.custom > 0
    /\ LET st == loadStatusFile(file)
           currentDate == IF date # NoDate THEN date ELSE getTodayString
           execDay == isExecutionDay(currentDate, config.cycleDays, st.lastCycleDate)
       IN  /\ status' = st
           /\ ctx' = [IdleCtx EXCEPT !.cmd = "run", !.dry = dry, !.today = currentDate,
                                      !.supplied = date, !.execDay = execDay, !.pre = st,
                                      !.file0 = file, !.repo0 = repo,
                                      !.rerun = /\ ctx.cmd = "run" /\ ~ctx.execDay
                                                /\ exit.saved /\ exit.heads = repo.head]
           /\ pc' = IF execDay THEN "create_fetch" ELSE "merge_fetch"
    /\ ops' = <<>> /\ exit' = Running
    /\ used' = [used EXCEPT !.runs = @ - 1, !.dry = IF dry THEN @ - 1 ELSE @,
                            !.custom = IF date # NoDate THEN @ - 1 ELSE @]
    /\ UNCHANGED <<clock, config, file, repo, hist, fn>>

\* `workflow` (lines 1207-1224): returns at once when it is not an execution day
WorkflowStart(date, dry) ==
    /\ pc = "idle" /\ used.runs > 0
    /\ dry => used.dry > 0
    /\ date # NoDate => used.custom > 0
    /\ LET st == loadStatusFile(file)
           currentDate == IF date # NoDate THEN date ELSE getTodayString
           execDay == isExecutionDay(currentDate, config.cycleDays, st.lastCycleDate)
       IN  /\ status' = st
           /\ ctx' = [IdleCtx EXCEPT !.cmd = "workflow", !.dry = dry, !.today = currentDate,
                                      !.supplied = date, !.execDay = execDay, !.pre = st,
                                      !.file0 = file, !.repo0 = repo]
           /\ pc' = IF execDay THEN "create_fetch" ELSE "idle"
           /\ exit' = IF execDay THEN Running ELSE Ended(0)
    /\ ops' = <<>>
    /\ used' = [used EXCEPT !.runs = @ - 1, !.dry = IF dry THEN @ - 1 ELSE @,
                            !.custom = IF date # NoDate THEN @ - 1 ELSE @]
    /\ UNCHANGED <<clock, config, file, repo, hist, fn>>

\* --- createBranches (lines 969-1095) ----------------------------------

\* gitOp.fetch() is not wrapped by execute(): it runs in a dry run too, and
\* an error it throws reaches the command's action wrapper
create_fetch ==
    /\ pc = "create_fetch"
    /\ \/ /\ Log(Op("fetch", NullBranch, NullBranch, FALSE, TRUE, TRUE, TRUE))
          /\ pc' = "create_pull"
          /\ UNCHANGED <<exit, used>>
       \/ /\ FaultOK /\ used' = Fault
          /\ Log(Op("fetch", NullBranch, NullBranch, FALSE, TRUE, TRUE, FALSE))
          /\ Die(INVALID_COMMAND)
    /\ UNCHANGED <<clock, config, file, repo, status, ctx, hist, fn>>

\* gitOp.pull(config.baseBranch): critical
create_pull ==
    /\ pc = "create_pull"
    /\ \/ /\ ctx.dry
          /\ Log(Op("pull", baseBranch, NullBranch, FALSE, TRUE, FALSE, TRUE))
          /\ pc' = "create_verify"
          /\ UNCHANGED <<exit, used, repo>>
       \/ /\ ~ctx.dry /\ CanCheckout(repo, baseBranch) /\ CanPull(repo, baseBranch)
          /\ Log(Op("pull", baseBranch, NullBranch, FALSE, TRUE, TRUE, TRUE))
          /\ repo' = GitCheckout(repo, baseBranch)
          /\ pc' = "create_verify"
          /\ UNCHANGED <<exit, used>>
       \/ /\ ~ctx.dry
          /\ \/ ~(CanCheckout(repo, baseBranch) /\ CanPull(repo, baseBranch)) /\ UNCHANGED used
             \/ FaultOK /\ used' = Fault
          /\ Log(Op("pull", baseBranch, NullBranch, FALSE, TRUE, TRUE, FALSE))
          /\ Die(GIT_OPERATION_FAILED)
          /\ UNCHANGED repo
    /\ UNCHANGED <<clock, config, file, status, ctx, hist, fn>>

\* the items with the pre step ahead of the uat step
CreateItems_preFirst(st, rot, aheadBranchExists) ==
    << [type |-> IF aheadBranchExists THEN "merge" ELSE "create",
        from |-> st.base.branch, to |-> rot.newBaseBranch, noFastForward |-> FALSE],
       [type |-> "merge", from |-> rot.uatSourceBranch, to |-> preBranch,
        noFastForward |-> TRUE],
       [type |-> "merge", from |-> rot.uatSourceBranch, to |-> uatBranch,
        noFastForward |-> FALSE],
       [type |-> "merge", from |-> rot.proSourceBranch, to |-> proBranch,
        noFastForward |-> TRUE] >>

\* the items of lines 1002-1031
CreateItems(st, rot, aheadBranchExists) ==
    << [type |-> IF aheadBranchExists THEN "merge" ELSE "create",
        from |-> st.base.branch, to |-> rot.newBaseBranch, noFastForward |-> FALSE],
       [type |-> "merge", from |-> rot.uatSourceBranch, to |-> uatBranch,
        noFastForward |-> FALSE],
       [type |-> "merge", from |-> rot.uatSourceBranch, to |-> preBranch,
        noFastForward |-> TRUE],
       [type |-> "merge", from |-> rot.proSourceBranch, to |-> proBranch,
        noFastForward |-> TRUE] >>

requiredBranches(rot) ==
    <<baseBranch, uatBranch, preBranch, proBranch,
      rot.uatSourceBranch, rot.proSourceBranch>>

\* lines 974-1031: the rotation targets, the verification of the required
\* branches, the tracked-branch entry and the list of steps
create_verify ==
    /\ pc = "create_verify"
    /\ LET rot == updateNextCycleBranches(config.branchPrefix, status, ctx.today,
                                          config.cycleDays, Now)
           req == requiredBranches(rot)
       IN  IF rot.threw
           THEN \* format() of an Invalid Date throws a RangeError
                Die(INVALID_COMMAND) /\ UNCHANGED <<status, ctx>>
           ELSE IF \E k \in 1..Len(req) : ~branchExists(repo, req[k])
           THEN \* the first miss ends the loop; for a null name the ls-remote
                \* call may throw instead, which branchExists turns into
                \* GIT_OPERATION_FAILED
                /\ LET miss == CHOOSE k \in 1..Len(req) :
                                  /\ ~branchExists(repo, req[k])
                                  /\ \A j \in 1..(k - 1) : branchExists(repo, req[j])
                   IN  \/ Die(MISSING_BRANCHES)
                       \/ req[miss] = NullBranch /\ Die(GIT_OPERATION_FAILED)
                /\ ctx' = [ctx EXCEPT !.rot = rot]
                /\ UNCHANGED status
           ELSE IF status.base.kind = "undef"
           THEN \* status.base.branch of an undefined slot: a TypeError
                Die(INVALID_COMMAND) /\ UNCHANGED <<status, ctx>>
           ELSE /\ status' = [status EXCEPT
                        !.hasBranches = TRUE,
                        !.branches = Append(IF status.hasBranches THEN @ ELSE <<>>,
                                            [branch |-> rot.newBaseBranch, time |-> Now])]
                /\ ctx' = [ctx EXCEPT
                        !.rot = rot, !.i = 1,
                        !.items = CreateItems(status, rot,
                                     remoteBranchExists(repo, rot.newBaseBranch))]
                /\ pc' = "create_item"
                /\ UNCHANGED exit
    /\ UNCHANGED <<clock, config, file, repo, ops, used, hist, fn>>

\* one step of the loop of lines 1032-1059: createBranch (critical) or
\* merge(item.to, item.from, true): noFastForward = true, critical by default
create_item ==
    /\ pc = "create_item"
    /\ LET item == ctx.items[ctx.i]
           isCreate == item.type = "create"
           name == IF isCreate THEN "createBranch" ELSE "merge"
           noff == ~isCreate
           possible == IF isCreate
                       THEN CanCheckout(repo, item.from) /\ CanPull(repo, item.from)
                       ELSE CanCheckout(repo, item.to) /\ Exists(repo, item.from)
           call(ran, ok) == Op(name, item.to, item.from, noff, TRUE, ran, ok)
       IN  \/ \* createBranch returns {success, existed} when the branch exists
              /\ isCreate /\ branchExists(repo, item.to)
              /\ Log(call(FALSE, TRUE))
              /\ pc' = "create_push"
              /\ UNCHANGED <<repo, exit, used>>
           \/ \* dry run: execute() reports success without running the command
              /\ ~(isCreate /\ branchExists(repo, item.to)) /\ ctx.dry
              /\ Log(call(FALSE, TRUE))
              /\ pc' = "create_push"
              /\ UNCHANGED <<repo, exit, used>>
           \/ \* the command succeeds
              /\ ~(isCreate /\ branchExists(repo, item.to)) /\ ~ctx.dry /\ possible
              /\ Log(call(TRUE, TRUE))
              /\ repo' = IF isCreate THEN GitCreate(repo, item.from, item.to)
                         ELSE GitMerge(repo, item.to, item.from)
              /\ pc' = "create_push"
              /\ UNCHANGED <<exit, used>>
           \/ \* the merge reports a conflict in its result (result.failed):
              \* it is aborted, or reset when the abort throws, and execute()
              \* reports success
              /\ ~isCreate /\ ~ctx.dry /\ possible /\ FaultOK /\ used' = Fault
              /\ \E how \in {"abort", "reset"} :
                    Log([call(TRUE, TRUE) EXCEPT !.recover = how, !.conflict = TRUE])
              /\ repo' = GitCheckout(repo, item.to)
              /\ pc' = "create_push"
              /\ UNCHANGED exit
           \/ \* the command throws: a critical failure; execute() catches the
              \* error and exits, with no abort and no reset.  The checkout
              \* fails when a branch is missing; the pull or the merge command
              \* of a merge step raises a conflict
              /\ ~(isCreate /\ branchExists(repo, item.to)) /\ ~ctx.dry
              /\ \/ /\ ~possible /\ UNCHANGED used
                    /\ Log(call(TRUE, FALSE))
                 \/ /\ FaultOK /\ used' = Fault
                    /\ Log([call(TRUE, FALSE) EXCEPT !.conflict = ~isCreate /\ possible])
              /\ Die(GIT_OPERATION_FAILED)
              /\ UNCHANGED repo
    /\ UNCHANGED <<clock, config, file, status, ctx, hist, fn>>

\* gitOp.push(item.to, false, false): not critical, its result is not read
create_push ==
    /\ pc = "create_push"
    /\ LET item == ctx.items[ctx.i]
           call(ran, ok) == Op("push", item.to, NullBranch, FALSE, FALSE, ran, ok)
       IN  \/ /\ ctx.dry
              /\ Log(call(FALSE, TRUE))
              /\ UNCHANGED <<repo, used>>
           \/ /\ ~ctx.dry /\ item.to \in repo.local
              /\ Log(call(TRUE, TRUE))
              /\ repo' = GitPush(repo, item.to)
              /\ UNCHANGED used
           \/ /\ ~ctx.dry
              /\ \/ item.to \notin repo.local /\ UNCHANGED used
                 \/ FaultOK /\ used' = Fault
              /\ Log(call(TRUE, FALSE))
              /\ UNCHANGED repo
    /\ ctx' = [ctx EXCEPT !.i = @ + 1]
    /\ pc' = IF ctx.i = Len(ctx.items) THEN "create_state" ELSE "create_item"
    /\ UNCHANGED <<clock, config, file, status, exit, hist, fn>>

\* getLatestCommitInfo: checkout + log, null when the checkout fails
getLatestCommitInfo(r, b) == IF CanCheckout(r, b) THEN HeadOf(r, b) ELSE NoCommit
AfterCommitInfo(r, b) == IF CanCheckout(r, b) THEN GitCheckout(r, b) ELSE r

\* the new state with pro left on the target it had
newState_proKept(st, rot, baseCommitInfo, uatCommitInfo, proCommitInfo) ==
    [st EXCEPT
        !.base = updateBranchStatus(st.base, rot.newBaseBranch, baseCommitInfo),
        !.uat = updateBranchStatus(st.uat, rot.uatSourceBranch, uatCommitInfo),
        !.pre = updateBranchStatus(st.pre, rot.uatSourceBranch, uatCommitInfo),
        !.pro = updateBranchStatus(st.pro, getBranchName(st.pro), proCommitInfo),
        !.aheadCycleDate = rot.aheadCycleDate,
        !.lastCycleDate = rot.nextCycleDate]

\* lines 1082-1091
\* the state update with the date of the last cycle left as it was
newState_keepDate(st, rot, baseCommitInfo, uatCommitInfo, proCommitInfo) ==
    [st EXCEPT
        !.base = updateBranchStatus(st.base, rot.newBaseBranch, baseCommitInfo),
        !.uat = updateBranchStatus(st.uat, rot.uatSourceBranch, uatCommitInfo),
        !.pre = updateBranchStatus(st.pre, rot.uatSourceBranch, uatCommitInfo),
        !.pro = updateBranchStatus(st.pro, rot.proSourceBranch, proCommitInfo),
        !.aheadCycleDate = rot.aheadCycleDate]

newState(st, rot, baseCommitInfo, uatCommitInfo, proCommitInfo) ==
    [st EXCEPT
        !.base = updateBranchStatus(st.base, rot.newBaseBranch, baseCommitInfo),
        !.uat = updateBranchStatus(st.uat, rot.uatSourceBranch, uatCommitInfo),
        !.pre = updateBranchStatus(st.pre, rot.uatSourceBranch, uatCommitInfo),
        !.pro = updateBranchStatus(st.pro, rot.proSourceBranch, proCommitInfo),
        !.aheadCycleDate = rot.aheadCycleDate,
        !.lastCycleDate = rot.nextCycleDate]

\* lines 1076-1094: the fingerprints of the new targets and the new state
\* the state update with `run` going from the rotation to the retention sweep
create_state_noSweep ==
    /\ pc = "create_state"
    /\ LET rot == ctx.rot
           r1 == AfterCommitInfo(repo, rot.newBaseBranch)
           r2 == AfterCommitInfo(r1, rot.uatSourceBranch)
           r3 == AfterCommitInfo(r2, rot.proSourceBranch)
       IN  /\ status' = newState(status, rot,
                            getLatestCommitInfo(repo, rot.newBaseBranch),
                            getLatestCommitInfo(r1, rot.uatSourceBranch),
                            getLatestCommitInfo(r2, rot.proSourceBranch))
           /\ repo' = r3
    /\ ctx' = [ctx EXCEPT !.cycled = TRUE]
    /\ pc' = "retention"
    /\ UNCHANGED <<clock, config, file, ops, exit, used, hist, fn>>

create_state ==
    /\ pc = "create_state"
    /\ LET rot == ctx.rot
           r1 == AfterCommitInfo(repo, rot.newBaseBranch)
           r2 == AfterCommitInfo(r1, rot.uatSourceBranch)
           r3 == AfterCommitInfo(r2, rot.proSourceBranch)
       IN  /\ status' = newState(status, rot,
                            getLatestCommitInfo(repo, rot.newBaseBranch),
                            getLatestCommitInfo(r1, rot.uatSourceBranch),
                            getLatestCommitInfo(r2, rot.proSourceBranch))
           /\ repo' = r3
    /\ ctx' = [ctx EXCEPT !.cycled = TRUE]
    /\ pc' = IF ctx.cmd = "run" THEN "merge_fetch" ELSE "retention"
    /\ UNCHANGED <<clock, config, file, ops, exit, used, hist, fn>>

\* --- mergeBranches (lines 852-958) ------------------------------------

merge_fetch ==
    /\ pc = "merge_fetch"
    /\ \/ /\ Log(Op("fetch", NullBranch, NullBranch, FALSE, TRUE, TRUE, TRUE))
          /\ pc' = "merge_pull"
          /\ UNCHANGED <<exit, used>>
       \/ /\ FaultOK /\ used' = Fault
          /\ Log(Op("fetch", NullBranch, NullBranch, FALSE, TRUE, TRUE, FALSE))
          /\ Die(INVALID_COMMAND)
    /\ UNCHANGED <<clock, config, file, repo, status, ctx, hist, fn>>

\* the items of lines 860-926; each keeps the fingerprint read when the list
\* is built
MergeItems(st, aheadExists) ==
    (IF aheadExists
     THEN << [key |-> "base", commit |-> extractBranchLatestCommit(st.base),
              from |-> baseBranch,
              to |-> formatBranchName(config.branchPrefix, st.aheadCycleDate)] >>
     ELSE << >>)
    \o << [key |-> "base", commit |-> st.base.commit, from |-> baseBranch,
           to |-> st.base.branch],
          [key |-> "uat", commit |-> st.uat.commit, from |-> st.uat.branch,
           to |-> uatBranch],
          [key |-> "pre", commit |-> st.pre.commit, from |-> st.pre.branch,
           to |-> preBranch],
          [key |-> "pro", commit |-> st.pro.commit, from |-> st.pro.branch,
           to |-> proBranch] >>

\* gitOp.pull(config.baseBranch): critical; then the list of items, with the
\* checkout of the ahead branch when the remote has it and it is not local
merge_pull ==
    /\ pc = "merge_pull"
    /\ LET ahead == formatBranchName(config.branchPrefix, status.aheadCycleDate)
           aheadExists == status.aheadCycleDate # NoDate /\ remoteBranchExists(repo, ahead)
           built(r) ==
               /\ repo' = IF aheadExists THEN GitCheckout(r, ahead) ELSE r
               /\ IF \E k \in {"base", "uat", "pre", "pro"} : status[k].kind = "undef"
                  THEN Die(INVALID_COMMAND) /\ UNCHANGED ctx
                  ELSE /\ ctx' = [ctx EXCEPT !.i = 1, !.hasError = FALSE,
                                             !.items = MergeItems(status, aheadExists),
                                             !.sweep = status]
                       /\ pc' = "merge_item"
                       /\ UNCHANGED exit
       IN  \/ /\ ctx.dry
              /\ Log(Op("pull", baseBranch, NullBranch, FALSE, TRUE, FALSE, TRUE))
              /\ built(repo)
              /\ UNCHANGED used
           \/ /\ ~ctx.dry /\ CanCheckout(repo, baseBranch) /\ CanPull(repo, baseBranch)
              /\ Log(Op("pull", baseBranch, NullBranch, FALSE, TRUE, TRUE, TRUE))
              /\ built(GitCheckout(repo, baseBranch))
              /\ UNCHANGED used
           \/ /\ ~ctx.dry
              /\ \/ ~(CanCheckout(repo, baseBranch) /\ CanPull(repo, baseBranch))
                    /\ UNCHANGED used
                 \/ FaultOK /\ used' = Fault
              /\ Log(Op("pull", baseBranch, NullBranch, FALSE, TRUE, TRUE, FALSE))
              /\ Die(GIT_OPERATION_FAILED)
              /\ UNCHANGED <<repo, ctx>>
    /\ UNCHANGED <<clock, config, file, status, hist, fn>>

\* the comparison inverted
sameCommitInfo_differ(commitInfo1, commitInfo2) ==
    commitInfo1 # NoCommit /\ commitInfo2 # NoCommit /\ commitInfo1 # commitInfo2

\* lines 843-851
sameCommitInfo(commitInfo1, commitInfo2) ==
    commitInfo1 # NoCommit /\ commitInfo2 # NoCommit /\ commitInfo1 = commitInfo2

\* the loop left once a merge has failed
MergeNext_stopOnError ==
    IF ctx.i = Len(ctx.items) \/ ctx.hasError THEN "merge_end" ELSE "merge_item"

\* the `for` loop of line 928 goes on to the next item, or ends
MergeNext == IF ctx.i = Len(ctx.items) THEN "merge_end" ELSE "merge_item"

\* lines 928-948, up to the merge: the fingerprint comparison and
\* gitOp.merge(to, from, false, false), which is not critical
merge_item ==
    /\ pc = "merge_item"
    /\ LET item == ctx.items[ctx.i]
           commitInfo == getLatestCommitInfo(repo, item.from)
           r0 == AfterCommitInfo(repo, item.from)
           possible == CanCheckout(r0, item.to) /\ Exists(r0, item.from)
           call(ran, ok) == Op("merge", item.to, item.from, FALSE, FALSE, ran, ok)
       IN  IF sameCommitInfo(commitInfo, item.commit)
           THEN /\ repo' = r0
                /\ ctx' = [ctx EXCEPT !.i = @ + 1]
                /\ pc' = MergeNext
                /\ UNCHANGED <<ops, used>>
           ELSE \/ /\ ctx.dry
                   /\ Log(call(FALSE, TRUE))
                   /\ repo' = r0
                   /\ pc' = "merge_push"
                   /\ UNCHANGED <<ctx, used>>
                \/ /\ ~ctx.dry /\ possible
                   /\ Log(call(TRUE, TRUE))
                   /\ repo' = GitMerge(r0, item.to, item.from)
                   /\ pc' = "merge_push"
                   /\ UNCHANGED <<ctx, used>>
                \/ /\ ~ctx.dry /\ possible /\ FaultOK /\ used' = Fault
                   /\ \E how \in {"abort", "reset"} :
                         Log([call(TRUE, TRUE) EXCEPT !.recover = how, !.conflict = TRUE])
                   /\ repo' = GitCheckout(r0, item.to)
                   /\ pc' = "merge_push"
                   /\ UNCHANGED ctx
                \/ \* the command throws: execute() catches the error and
                   \* returns a failure, with no abort and no reset
                   /\ ~ctx.dry
                   /\ \/ /\ ~possible /\ UNCHANGED used
                         /\ Log(call(TRUE, FALSE))
                      \/ /\ FaultOK /\ used' = Fault
                         /\ Log([call(TRUE, FALSE) EXCEPT !.conflict = possible])
                   /\ repo' = r0
                   /\ ctx' = [ctx EXCEPT !.i = @ + 1, !.hasError = TRUE]
                   /\ pc' = MergeNext
    /\ UNCHANGED <<clock, config, file, status, exit, hist, fn>>

\* the push and the new fingerprint, with the date of the run recorded as
\* the date of the last cycle
merge_push_dated ==
    /\ pc = "merge_push"
    /\ LET item == ctx.items[ctx.i]
           call(ran, ok) == Op("push", item.to, NullBranch, FALSE, FALSE, ran, ok)
           record(r) ==
               LET commitInfo == getLatestCommitInfo(r, item.from)
               IN  /\ repo' = AfterCommitInfo(r, item.from)
                   /\ status' = IF commitInfo # NoCommit
                                THEN [status EXCEPT ![item.key].commit = commitInfo,
                                                    !.lastCycleDate = ctx.today]
                                ELSE status
       IN  \/ /\ ctx.dry
              /\ Log(call(FALSE, TRUE))
              /\ record(repo)
              /\ UNCHANGED used
           \/ /\ ~ctx.dry /\ item.to \in repo.local
              /\ Log(call(TRUE, TRUE))
              /\ record(GitPush(repo, item.to))
              /\ UNCHANGED used
           \/ /\ ~ctx.dry
              /\ \/ item.to \notin repo.local /\ UNCHANGED used
                 \/ FaultOK /\ used' = Fault
              /\ Log(call(TRUE, FALSE))
              /\ record(repo)
    /\ ctx' = [ctx EXCEPT !.i = @ + 1]
    /\ pc' = MergeNext
    /\ UNCHANGED <<clock, config, file, exit, hist, fn>>

\* lines 939-944: the push (not critical, result not read) and the new
\* fingerprint of the slot, read from the source branch
merge_push ==
    /\ pc = "merge_push"
    /\ LET item == ctx.items[ctx.i]
           call(ran, ok) == Op("push", item.to, NullBranch, FALSE, FALSE, ran, ok)
           record(r) ==
               LET commitInfo == getLatestCommitInfo(r, item.from)
               IN  /\ repo' = AfterCommitInfo(r, item.from)
                   /\ status' = IF commitInfo # NoCommit
                                THEN [status EXCEPT ![item.key].commit = commitInfo]
                                ELSE status
       IN  \/ /\ ctx.dry
              /\ Log(call(FALSE, TRUE))
              /\ record(repo)
              /\ UNCHANGED used
           \/ /\ ~ctx.dry /\ item.to \in repo.local
              /\ Log(call(TRUE, TRUE))
              /\ record(GitPush(repo, item.to))
              /\ UNCHANGED used
           \/ /\ ~ctx.dry
              /\ \/ item.to \notin repo.local /\ UNCHANGED used
                 \/ FaultOK /\ used' = Fault
              /\ Log(call(TRUE, FALSE))
              /\ record(repo)
    /\ ctx' = [ctx EXCEPT !.i = @ + 1]
    /\ pc' = MergeNext
    /\ UNCHANGED <<clock, config, file, exit, hist, fn>>

\* lines 953-956: ERROR_CODES has no MERGE_FAILED, so the process exits with
\* process.exit(undefined), that is with code 0; then lines 1195-1200
merge_end ==
    /\ pc = "merge_end"
    /\ IF ctx.hasError
       THEN Die(0)
       ELSE /\ pc' = IF ctx.cycled THEN "retention" ELSE "save"
            /\ UNCHANGED exit
    /\ UNCHANGED <<clock, config, file, repo, status, ctx, ops, used, hist, fn>>

\* --- removeOldBranches (lines 1103-1129) -------------------------------

RECURSIVE SelectSeq2_strict(_, _, _)
\* the filter with an entry made exactly at the cutoff counted as old
SelectSeq2_strict(list, cutoff, keep) ==
    IF list = <<>> THEN <<>>
    ELSE (IF (list[1].time > cutoff) = keep THEN <<list[1]>> ELSE <<>>)
         \o SelectSeq2_strict(Tail(list), cutoff, keep)

RECURSIVE SelectSeq2(_, _, _)
\* Array.prototype.filter on the tracked list: the entries with keep = (time >= cutoff)
SelectSeq2(list, cutoff, keep) ==
    IF list = <<>> THEN <<>>
    ELSE (IF (list[1].time >= cutoff) = keep THEN <<list[1]>> ELSE <<>>)
         \o SelectSeq2(Tail(list), cutoff, keep)

\* gitOp.deleteBranch: the local delete, then the remote delete; errors are
\* caught inside, and a failing local delete skips the remote delete
GitDelete(r, b) ==
    IF b \in r.local THEN [r EXCEPT !.local = @ \ {b}, !.remote = @ \ {b}] ELSE r

RECURSIVE DeleteAll(_, _, _)
DeleteAll(r, list, dry) ==
    IF list = <<>> THEN [repo |-> r, ops |-> <<>>]
    ELSE LET b == list[1].branch
             hit == branchExists(r, b)
             r1 == IF hit /\ ~dry THEN GitDelete(r, b) ELSE r
             rest == DeleteAll(r1, Tail(list), dry)
         IN  [repo |-> rest.repo,
              ops |-> (IF hit
                       THEN <<Op("deleteBranch", b, NullBranch, FALSE, FALSE, ~dry, TRUE)>>
                       ELSE <<>>) \o rest.ops]

\* lines 1104-1128: what the sweep makes of the status and the repository,
\* and the calls it issues; `branchRetentionCycles || 3` replaces 0 only
RetentionSweep(cfg, st, r, now, dry) ==
    IF cfg.autoRemoveBranches /\ st.hasBranches
    THEN LET retentionCycles == IF cfg.branchRetentionCycles = 0 THEN 3
                                ELSE cfg.branchRetentionCycles
             retentionTime == retentionCycles * cfg.cycleDays
             cutoffDate == now - retentionTime
             branchesToRemove == SelectSeq2(st.branches, cutoffDate, FALSE)
             done == DeleteAll(r, branchesToRemove, dry)
         IN  [repo |-> done.repo, ops |-> done.ops,
              status |-> [st EXCEPT !.branches = SelectSeq2(st.branches, cutoffDate, TRUE)]]
    ELSE [repo |-> r, ops |-> <<>>, status |-> st]

removeOldBranches ==
    /\ pc = "retention"
    /\ LET done == RetentionSweep(config, status, repo, Now, ctx.dry)
       IN  /\ repo' = done.repo
           /\ ops' = ops \o done.ops
           /\ status' = done.status
    /\ pc' = "save"
    /\ UNCHANGED <<clock, config, file, ctx, exit, used, hist, fn>>

\* --- initializeBranches (lines 631-777) --------------------------------

\* lines 651-679
InitItems(st) ==
    << [key |-> "base", prev |-> NullBranch, current |-> baseBranch,
        next |-> st.base.branch],
       [key |-> "uat", prev |-> st.base.branch, current |-> st.uat.branch,
        next |-> uatBranch],
       [key |-> "pre", prev |-> st.base.branch, current |-> st.pre.branch,
        next |-> preBranch],
       [key |-> "pro", prev |-> preBranch, current |-> st.pro.branch,
        next |-> proBranch] >>

\* `if (!status.key.branch) status.key.branch = name` (lines 644-647)
DefaultBranch(slot, name) ==
    IF slot.branch = NullBranch THEN [slot EXCEPT !.branch = name] ELSE slot

\* `init` (lines 1142-1150) and lines 632-679 of initializeBranches
InitStart(date, dry) ==
    /\ pc = "idle" /\ used.runs > 0
    /\ dry => used.dry > 0
    /\ date # NoDate => used.custom > 0
    /\ LET st == loadStatusFile(file)
           currentDateString == IF date # NoDate THEN date ELSE getTodayString
           dateInfo == calculateCycleDateInfo(st.lastCycleDate, currentDateString,
                                              config.cycleDays)
           newBaseBranch == formatBranchName(config.branchPrefix, dateInfo.current)
           x1 == PrefixedLit(config.branchPrefix, "x1")
           x2 == PrefixedLit(config.branchPrefix, "x2")
           st1 == [st EXCEPT !.base = DefaultBranch(@, newBaseBranch),
                             !.uat = DefaultBranch(@, x2),
                             !.pre = DefaultBranch(@, x2),
                             !.pro = DefaultBranch(@, x1),
                             !.lastCycleDate = dateInfo.current,
                             !.aheadCycleDate = dateInfo.next]
           c0 == [IdleCtx EXCEPT !.cmd = "init", !.dry = dry, !.today = currentDateString,
                                 !.supplied = date, !.pre = st,
                                 !.file0 = file, !.repo0 = repo]
       IN  IF dateInfo.threw \/ st.base.kind = "undef"
           THEN \* a RangeError of format(), or the TypeError of reading
                \* status.base.branch when the status is {}
                /\ Die(INVALID_COMMAND)
                /\ status' = st /\ ctx' = c0
           ELSE /\ status' = st1
                /\ ctx' = [c0 EXCEPT !.i = 1, !.items = InitItems(st1)]
                /\ pc' = "init_item"
                /\ exit' = Running
    /\ ops' = <<>>
    /\ used' = [used EXCEPT !.runs = @ - 1, !.dry = IF dry THEN @ - 1 ELSE @,
                            !.custom = IF date # NoDate THEN @ - 1 ELSE @]
    /\ UNCHANGED <<clock, config, file, repo, hist, fn>>

\* the toDoList of one item (lines 698-725)
ToDoList(r, item) ==
    LET prevExists == item.prev # NullBranch /\ branchExists(r, item.prev)
        currentExists == branchExists(r, item.current)
        nextExists == branchExists(r, item.next)
    IN  (IF prevExists /\ ~currentExists /\ ~nextExists
         THEN << [from |-> item.prev, to |-> item.current],
                 [from |-> item.current, to |-> item.next] >>
         ELSE << >>)
        \o (IF currentExists THEN << [from |-> item.current, to |-> item.next] >>
            ELSE << >>)
        \o (IF nextExists THEN << [from |-> item.next, to |-> item.current] >>
            ELSE << >>)

RECURSIVE RunToDo(_, _, _)
\* lines 727-747: merge into an existing branch, or createBranch, an empty
\* commit on the source and a push; all of them critical
RunToDo(r, list, dry) ==
    IF list = <<>> THEN [repo |-> r, ops |-> <<>>, ok |-> TRUE]
    ELSE LET t == list[1]
             isMerge == branchExists(r, t.to)
             possible == IF isMerge THEN CanCheckout(r, t.to) /\ Exists(r, t.from)
                         ELSE CanCheckout(r, t.from) /\ CanPull(r, t.from)
             call == Op(IF isMerge THEN "merge" ELSE "createBranch", t.to, t.from,
                        FALSE, TRUE, ~dry, dry \/ possible)
             created == GitCreate(r, t.from, t.to)
             r1 == IF dry THEN r
                   ELSE IF isMerge THEN GitMerge(r, t.to, t.from)
                   ELSE GitPush(SetHead(created, t.from,
                                        [lvl |-> HeadOf(created, t.from).lvl, by |-> t.from]),
                                t.to)
             rest == RunToDo(r1, Tail(list), dry)
         IN  IF dry \/ possible
             THEN [repo |-> rest.repo, ops |-> <<call>> \o rest.ops, ok |-> rest.ok]
             ELSE [repo |-> r, ops |-> <<call>>, ok |-> FALSE]

\* one item of the loop of lines 689-750
init_item ==
    /\ pc = "init_item"
    /\ LET item == ctx.items[ctx.i]
           list == ToDoList(repo, item)
           done == RunToDo(repo, list, ctx.dry)
       IN  IF list = <<>>
           THEN \* neither prev, current nor next exists
                Die(MISSING_BRANCHES) /\ UNCHANGED <<repo, ops, ctx, used>>
           ELSE \/ /\ done.ok
                   /\ repo' = done.repo
                   /\ ops' = ops \o done.ops
                   /\ ctx' = [ctx EXCEPT !.i = @ + 1]
                   /\ pc' = IF ctx.i = Len(ctx.items) THEN "init_state" ELSE "init_item"
                   /\ UNCHANGED <<exit, used>>
                \/ \* a critical command throws
                   /\ ~ctx.dry
                   /\ \/ \* a branch is missing: the calls before it have run
                         /\ ~done.ok /\ UNCHANGED used
                         /\ ops' = ops \o done.ops
                         /\ repo' = done.repo
                      \/ \* the first call fails
                         /\ FaultOK /\ used' = Fault
                         /\ Log([done.ops[1] EXCEPT
                                   !.ok = FALSE,
                                   !.conflict = done.ops[1].op = "merge" /\ done.ops[1].ok])
                         /\ UNCHANGED repo
                   /\ Die(GIT_OPERATION_FAILED)
                   /\ UNCHANGED ctx
    /\ UNCHANGED <<clock, config, file, status, hist, fn>>

RECURSIVE InitCommits(_, _, _)
\* lines 756-765: the fingerprint of each slot, read from item.current
InitCommits(st, r, items) ==
    IF items = <<>> THEN st
    ELSE LET item == items[1]
             commitInfo == getLatestCommitInfo(r, item.current)
         IN  InitCommits(IF commitInfo # NoCommit
                         THEN [st EXCEPT ![item.key].commit = commitInfo]
                         ELSE st,
                         r, Tail(items))

\* lines 756-772: gitOp.checkout(item.current) is not wrapped by execute(), an
\* error it throws reaches the command's action wrapper; then the status
\* file is saved
init_state ==
    /\ pc = "init_state"
    /\ IF \E k \in 1..Len(ctx.items) : ~CanCheckout(repo, ctx.items[k].current)
       THEN Die(INVALID_COMMAND) /\ UNCHANGED <<status, file, repo>>
       ELSE LET st == InitCommits(status, repo, ctx.items)
            IN  /\ status' = st
                /\ file' = convertToSaveFormat(st)
                /\ repo' = [repo EXCEPT !.local =
                              @ \cup {ctx.items[k].current : k \in 1..Len(ctx.items)}]
                /\ exit' = Completed(TRUE, repo)
                /\ pc' = "idle"
    /\ UNCHANGED <<clock, config, ctx, ops, used, hist, fn>>

\* --- saveStatusFile and the end of the command (lines 1200-1201) -------

Targets(st) ==
    [base |-> getBranchName(st.base), uat |-> getBranchName(st.uat),
     pre |-> getBranchName(st.pre), pro |-> getBranchName(st.pro)]

saveStatusFile ==
    /\ pc = "save"
    /\ file' = convertToSaveFormat(status)
    /\ exit' = Completed(TRUE, repo)
    /\ hist' = IF ctx.cycled THEN Append(hist, Targets(status)) ELSE hist
    /\ pc' = "idle"
    /\ UNCHANGED <<clock, config, repo, status, ctx, ops, used, fn>>

\* --- the `fake` command (lines 1134-1141) and emptyCommit (624-628) -----

\* gitOp.checkout and gitOp.emptyCommit are not wrapped by execute(): they run
\* in a dry run too; gitOp.push(config.baseBranch) is critical.  The empty
\* commit gives the base branch a new head with the content it had; a second
\* empty commit on top of it would have the same fingerprint here and is not
\* drawn
FakeCommand(dry) ==
    /\ pc = "idle" /\ used.runs > 0
    /\ dry => used.dry > 0
    /\ HeadOf(repo, baseBranch).by # baseBranch
    /\ LET c0 == [IdleCtx EXCEPT !.cmd = "fake", !.dry = dry, !.file0 = file,
                                 !.repo0 = repo]
           r1 == GitCheckout(repo, baseBranch)
           r2 == SetHead(r1, baseBranch,
                         [lvl |-> HeadOf(r1, baseBranch).lvl, by |-> baseBranch])
           checkout(ok) == Op("checkout", baseBranch, NullBranch, FALSE, TRUE, TRUE, ok)
           commit == Op("emptyCommit", baseBranch, NullBranch, FALSE, TRUE, TRUE, TRUE)
           push(ran, ok) == Op("push", baseBranch, NullBranch, FALSE, TRUE, ran, ok)
       IN  /\ ctx' = c0
           /\ IF ~CanCheckout(repo, baseBranch)
              THEN /\ ops' = <<checkout(FALSE)>>
                   /\ Die(INVALID_COMMAND)
                   /\ UNCHANGED repo
                   /\ used' = [used EXCEPT !.runs = @ - 1, !.dry = IF dry THEN @ - 1 ELSE @]
              ELSE \/ /\ ops' = <<checkout(TRUE), commit, push(~dry, TRUE)>>
                      /\ repo' = IF dry THEN r2 ELSE GitPush(r2, baseBranch)
                      /\ pc' = "idle"
                      /\ exit' = Completed(FALSE, r2)
                      /\ used' = [used EXCEPT !.runs = @ - 1,
                                              !.dry = IF dry THEN @ - 1 ELSE @]
                   \/ /\ ~dry /\ FaultOK
                      /\ ops' = <<checkout(TRUE), commit, push(TRUE, FALSE)>>
                      /\ repo' = r2
                      /\ Die(GIT_OPERATION_FAILED)
                      /\ used' = [used EXCEPT !.runs = @ - 1, !.faults = @ - 1]
    /\ UNCHANGED <<clock, config, file, status, hist, fn>>

\* --- the environment ----------------------------------------------------

\* a day passes between two invocations
Tick ==
    /\ pc = "idle" /\ clock < MaxDay
    /\ clock' = clock + 1
    /\ UNCHANGED <<config, file, repo, pc, status, ctx, ops, exit, used, hist, fn>>

\* a developer pushes a commit to the root base branch
DevCommit ==
    /\ pc = "idle" /\ baseBranch \in repo.remote
    /\ HeadOf(repo, baseBranch).lvl < MaxCommits
    /\ repo' = SetHead(repo, baseBranch,
                       [lvl |-> HeadOf(repo, baseBranch).lvl + 1, by |-> NullBranch])
    /\ UNCHANGED <<clock, config, file, pc, status, ctx, ops, exit, used, hist, fn>>

\* a developer opens the branch of the next cycle ahead of its date: the
\* remote gets the branch that mergeBranches looks for (lines 862-866), cut
\* from the root base branch
AheadCreated ==
    /\ pc = "idle" /\ file.aheadCycleDate # NoDate /\ baseBranch \in repo.remote
    /\ used.ahead > 0
    /\ LET ahead == formatBranchName(config.branchPrefix, file.aheadCycleDate)
       IN  /\ ~Exists(repo, ahead)
           /\ repo' = SetHead([repo EXCEPT !.remote = @ \cup {ahead}], ahead,
                              [lvl |-> HeadOf(repo, baseBranch).lvl, by |-> ahead])
    /\ used' = [used EXCEPT !.ahead = @ - 1]
    /\ UNCHANGED <<clock, config, file, pc, status, ctx, ops, exit, hist, fn>>

(* --------------------------- initial states --------------------------- *)

Days == FirstDay .. (FirstDay + MaxDay)
DateStrings == {format([valid |-> TRUE, day |-> d]) : d \in Days}
\* the --date option: absent, the first or the last day of the model, or a
\* custom date that does not parse (30 February)
SuppliedDates ==
    {NoDate, format([valid |-> TRUE, day |-> FirstDay]),
     format([valid |-> TRUE, day |-> FirstDay + MaxDay]), 20250230}

Configs ==
    { [cycleDays |-> 2, branchPrefix |-> "rel", autoRemoveBranches |-> TRUE,
       branchRetentionCycles |-> 1],
      [cycleDays |-> 3, branchPrefix |-> "", autoRemoveBranches |-> FALSE,
       branchRetentionCycles |-> 1] }

\* A hand-written first status file names its targets drifted, as in the
\* documented example (flat), or in step (richer shape).

FlatFile(t) ==
    [NoFile EXCEPT !.exists = TRUE, !.base = StrSlot(t[1]), !.uat = StrSlot(t[2]),
                   !.pre = StrSlot(t[3]), !.pro = StrSlot(t[4])]
RichFile(t) ==
    [NoFile EXCEPT !.exists = TRUE,
                   !.base = ObjSlot(t[1], NoCommit), !.uat = ObjSlot(t[2], NoCommit),
                   !.pre = ObjSlot(t[3], NoCommit), !.pro = ObjSlot(t[4], NoCommit)]

\* the documented example also records the date of the last cycle
InitFiles ==
    { NoFile, FlatFile(<<Lit("t3"), Lit("t2"), Lit("t1"), Lit("t0")>>),
      [FlatFile(<<Lit("t3"), Lit("t2"), Lit("t1"), Lit("t0")>>)
         EXCEPT !.lastCycleDate = format([valid |-> TRUE, day |-> FirstDay])],
      RichFile(<<Lit("t2"), Lit("t1"), Lit("t1"), Lit("t0")>>) }

EnvBranches == {baseBranch, uatBranch, preBranch, proBranch}
InitBranches == EnvBranches \cup {Lit("t0"), Lit("t1"), Lit("t2"), Lit("t3")}

\* every branch exists locally and on the remote, but for `missing`
InitRepo(missing) ==
    [local |-> InitBranches \ missing, remote |-> InitBranches \ missing,
     head |-> [b \in InitBranches \ missing |->
                 [lvl |-> 0, by |-> IF b = baseBranch THEN NullBranch ELSE b]]]

Missing == {{}} \cup {{b} : b \in {baseBranch, uatBranch, proBranch, Lit("t2"), Lit("t1")}}

\* what one behaviour may use: MaxRuns plain invocations, with a branch
\* opened ahead by a developer, or one invocation less with faults, with dry
\* runs or with custom dates
Plans ==
    { [runs |-> MaxRuns, faults |-> 0, dry |-> 0, custom |-> 0,
       ahead |-> MaxAheadBranches],
      [runs |-> MaxRuns - 1, faults |-> MaxFaults, dry |-> 0, custom |-> 0, ahead |-> 0],
      [runs |-> MaxRuns - 1, faults |-> 0, dry |-> MaxDryRuns, custom |-> 0, ahead |-> 0],
      [runs |-> MaxRuns - 1, faults |-> 0, dry |-> 0, custom |-> MaxCustomDates,
       ahead |-> 0] }

NoInfo == [threw |-> FALSE, current |-> NoDate, next |-> NoDate]

NoFn ==
    [op |-> "none", today |-> NoDate, last |-> NoDate, cycleDays |-> 1, now |-> 0,
     exec |-> FALSE, st |-> loadStatusFile(NoFile), info |-> NoInfo,
     rot |-> NoRotation, after |-> loadStatusFile(NoFile),
     slot |-> "base", commit |-> NoCommit, before |-> UndefSlot]

Init ==
    /\ clock = 0
    /\ \/ /\ config \in Configs
          /\ file \in InitFiles
          /\ repo = InitRepo({})
       \/ \* one of the branches that a FullCycle requires is missing
          /\ config = [cycleDays |-> 2, branchPrefix |-> "rel",
                       autoRemoveBranches |-> FALSE, branchRetentionCycles |-> 1]
          /\ file = RichFile(<<Lit("t3"), Lit("t2"), Lit("t1"), Lit("t0")>>)
          /\ \E m \in Missing : repo = InitRepo(m)
    /\ pc = "idle"
    /\ status = loadStatusFile(NoFile)
    /\ ctx = IdleCtx
    /\ ops = <<>>
    /\ exit = Running
    /\ used \in Plans
    /\ hist = <<>>
    /\ fn = NoFn

Next ==
    \/ \E date \in SuppliedDates, dry \in BOOLEAN : RunStart(date, dry)
    \/ \E date \in SuppliedDates, dry \in BOOLEAN : WorkflowStart(date, dry)
    \/ \E date \in SuppliedDates, dry \in BOOLEAN : InitStart(date, dry)
    \/ \E dry \in BOOLEAN : FakeCommand(dry)
    \/ init_item
    \/ init_state
    \/ create_fetch
    \/ create_pull
    \/ create_verify
    \/ create_item
    \/ create_push
    \/ create_state
    \/ merge_fetch
    \/ merge_pull
    \/ merge_item
    \/ merge_push
    \/ merge_end
    \/ removeOldBranches
    \/ saveStatusFile
    \/ Tick
    \/ DevCommit
    \/ AheadCreated

Spec == Init /\ [][Next]_vars

(* ------------- the cycle clock and the rotation on their own ----------- *)

\* the arguments drawn for the functions: every day of the model and a date
\* that does not parse; every target of a slot, null included
ClockDates == DateStrings \cup {20250230}
ClockTargets == {NullBranch, Lit("a"), Lit("b"), Lit("c")}

ClockStatus(b, u, p, last) ==
    [loadStatusFile(NoFile) EXCEPT
        !.base = ObjSlot(b, NoCommit), !.uat = ObjSlot(u, NoCommit),
        !.pre = ObjSlot(u, NoCommit), !.pro = ObjSlot(p, NoCommit),
        !.lastCycleDate = last,
        !.aheadCycleDate = IF last = NoDate THEN NoDate
                           ELSE format(addDays(parse(last), 1))]

CallIsExecutionDay ==
    /\ pc = "fn" /\ fn.op = "none"
    /\ \E today \in ClockDates, last \in DateStrings \cup {NoDate},
          cycleDays \in 1..MaxCycleDays :
          fn' = [NoFn EXCEPT !.op = "isExecutionDay", !.today = today, !.last = last,
                             !.cycleDays = cycleDays,
                             !.exec = isExecutionDay(today, cycleDays, last)]
    /\ UNCHANGED <<clock, config, file, repo, pc, status, ctx, ops, exit, used, hist>>

CallCalculateCycleDateInfo ==
    /\ pc = "fn" /\ fn.op = "none"
    /\ \E today \in ClockDates, last \in DateStrings \cup {NoDate},
          cycleDays \in 1..MaxCycleDays :
          fn' = [NoFn EXCEPT !.op = "calculateCycleDateInfo", !.today = today,
                             !.last = last, !.cycleDays = cycleDays,
                             !.info = calculateCycleDateInfo(last, today, cycleDays)]
    /\ UNCHANGED <<clock, config, file, repo, pc, status, ctx, ops, exit, used, hist>>

\* the rotation of a FullCycle: the targets of lines 279-316 written into the
\* status by lines 1082-1091
CallUpdateNextCycleBranches ==
    /\ pc = "fn" /\ fn.op = "none"
    /\ \E today \in ClockDates, last \in DateStrings \cup {NoDate},
          cycleDays \in 1..MaxCycleDays, now \in Days,
          b \in ClockTargets, u \in ClockTargets, p \in ClockTargets :
          LET st == ClockStatus(b, u, p, last)
              rot == updateNextCycleBranches(config.branchPrefix, st, today, cycleDays, now)
          IN  fn' = [NoFn EXCEPT !.op = "updateNextCycleBranches", !.today = today,
                                 !.last = last, !.cycleDays = cycleDays, !.now = now,
                                 !.st = st, !.rot = rot,
                                 !.after = IF rot.threw THEN st
                                           ELSE newState(st, rot, NoCommit, NoCommit, NoCommit)]
    /\ UNCHANGED <<clock, config, file, repo, pc, status, ctx, ops, exit, used, hist>>

ClockInit ==
    /\ clock = 0
    /\ config \in Configs
    /\ file = NoFile
    /\ repo = InitRepo({})
    /\ pc = "fn"
    /\ status = loadStatusFile(NoFile)
    /\ ctx = IdleCtx
    /\ ops = <<>>
    /\ exit = Running
    /\ used = [runs |-> 0, faults |-> 0, dry |-> 0, custom |-> 0, ahead |-> 0]
    /\ hist = <<>>
    /\ fn = NoFn

ClockNext ==
    \/ CallIsExecutionDay
    \/ CallCalculateCycleDateInfo
    \/ CallUpdateNextCycleBranches

ClockSpec == ClockInit /\ [][ClockNext]_vars

(* ------------------- the retention sweep on its own -------------------- *)

\* the configurations drawn for the sweep: with and without a prefix, with
\* and without autoRemoveBranches, retention values below 1 included
RetentionConfigs ==
    [cycleDays : {1, 2}, branchPrefix : {"", "rel"}, autoRemoveBranches : BOOLEAN,
     branchRetentionCycles : {0 - 1, 0, 1, 3}]

\* the tracked entries drawn: a date-named branch, a branch that is gone, and
\* an entry that carries the name of an environment branch; made today, or
\* 3, 6 or 7 days ago
RetentionEntries ==
    [branch : {Lit("t1"), Lit("gone"), uatBranch},
     time : {FirstDay + MaxDay - age : age \in {0, 3, 6, 7}}]

RetentionLists ==
    {<<>>} \cup {<<e>> : e \in RetentionEntries}
           \cup {<<e1, e2>> : e1 \in RetentionEntries, e2 \in RetentionEntries}

\* the state in which a FullCycle calls removeOldBranches (line 1225), after
\* its steps have completed: the tracked list is the one of the status file
RetentionInit ==
    /\ clock = MaxDay
    /\ config \in RetentionConfigs
    /\ \E list \in RetentionLists :
          file = [RichFile(<<Lit("t2"), Lit("t1"), Lit("t1"), Lit("t0")>>)
                    EXCEPT !.hasBranches = TRUE, !.branches = list,
                           !.lastCycleDate = format([valid |-> TRUE, day |-> FirstDay + MaxDay])]
    /\ repo = InitRepo({})
    /\ pc = "retention"
    /\ status = loadStatusFile(file)
    /\ \E dry \in BOOLEAN :
          ctx = [IdleCtx EXCEPT !.cmd = "workflow", !.dry = dry, !.today = getTodayString,
                                !.execDay = TRUE, !.cycled = TRUE, !.pre = status,
                                !.file0 = file, !.repo0 = repo]
    /\ ops = <<>>
    /\ exit = Running
    /\ used = [runs |-> 0, faults |-> 0, dry |-> 0, custom |-> 0, ahead |-> 0]
    /\ hist = <<>>
    /\ fn = NoFn

RetentionNext ==
    \/ removeOldBranches
    \/ saveStatusFile

RetentionSpec == RetentionInit /\ [][RetentionNext]_vars

(* --------------------- the status store on its own --------------------- *)

\* updates of the in-memory status in one behaviour
MaxStoreUpdates == 2

StoreCommit == [lvl |-> 0, by |-> Lit("t1")]
NewCommit == [lvl |-> 1, by |-> Lit("n1")]

StoreRich ==
    [NoFile EXCEPT !.exists = TRUE,
                   !.base = ObjSlot(Lit("t2"), StoreCommit),
                   !.uat = ObjSlot(Lit("t1"), StoreCommit),
                   !.pre = ObjSlot(Lit("t1"), StoreCommit),
                   !.pro = ObjSlot(Lit("t0"), StoreCommit),
                   !.lastCycleDate = format([valid |-> TRUE, day |-> FirstDay]),
                   !.aheadCycleDate = format([valid |-> TRUE, day |-> FirstDay + 1]),
                   !.hasBranches = TRUE,
                   !.branches = << [branch |-> Lit("t2"), time |-> FirstDay] >>]

\* the status files drawn: the richer shape, complete, with a slot that has
\* a null target, and lacking one of the uat, pre and pro slots; the flat
\* shape, complete and lacking a slot; and no file
StoreFiles ==
    { StoreRich, [StoreRich EXCEPT !.pro = ObjSlot(NullBranch, NoCommit)] }
    \cup { [StoreRich EXCEPT ![k] = UndefSlot] : k \in {"uat", "pre", "pro"} }
    \cup { FlatFile(<<Lit("t3"), Lit("t2"), Lit("t1"), Lit("t0")>>),
           [FlatFile(<<Lit("t3"), Lit("t2"), Lit("t1"), Lit("t0")>>)
              EXCEPT !.uat = UndefSlot],
           NoFile }

StoreInit ==
    /\ clock = 0
    /\ config \in Configs
    /\ file \in StoreFiles
    /\ repo = InitRepo({})
    /\ pc = "store"
    /\ status = loadStatusFile(file)
    /\ ctx = [IdleCtx EXCEPT !.pre = status, !.file0 = file]
    /\ ops = <<>>
    /\ exit = Running
    /\ used = [runs |-> MaxStoreUpdates, faults |-> 0, dry |-> 0, custom |-> 0, ahead |-> 0]
    /\ hist = <<>>
    /\ fn = NoFn

\* status.key = updateBranchStatus(status.key, name, commitInfo) (lines 1082-1091)
CallUpdateBranchStatus ==
    /\ pc = "store" /\ used.runs > 0
    /\ \E k \in {"base", "uat", "pre", "pro"}, name \in {Lit("n1"), Lit("t1")},
          commitInfo \in {NoCommit, NewCommit} :
          /\ status' = [status EXCEPT ![k] = updateBranchStatus(@, name, commitInfo)]
          /\ fn' = [NoFn EXCEPT !.op = "updateBranchStatus", !.slot = k,
                                 !.commit = commitInfo, !.before = status[k]]
    /\ used' = [used EXCEPT !.runs = @ - 1]
    /\ UNCHANGED <<clock, config, file, repo, pc, ctx, ops, exit, hist>>

\* status.lastCycleDate, status.aheadCycleDate (lines 1090-1091) and the
\* tracked entry of lines 993-998
CallSetCycleDates ==
    /\ pc = "store" /\ used.runs > 0
    /\ \E d \in {FirstDay + 2, FirstDay + 3} :
          /\ status' = [status EXCEPT
                  !.lastCycleDate = format([valid |-> TRUE, day |-> d]),
                  !.aheadCycleDate = format([valid |-> TRUE, day |-> d + 1]),
                  !.hasBranches = TRUE,
                  !.branches = Append(IF status.hasBranches THEN @ ELSE <<>>,
                                      [branch |-> Lit("n1"), time |-> d])]
          /\ fn' = [NoFn EXCEPT !.op = "setCycleDates"]
    /\ used' = [used EXCEPT !.runs = @ - 1]
    /\ UNCHANGED <<clock, config, file, repo, pc, ctx, ops, exit, hist>>

\* saveStatusFile then loadStatusFile; fn.st keeps the status that was saved
SaveAndLoad ==
    /\ pc = "store"
    /\ file' = convertToSaveFormat(status)
    /\ status' = loadStatusFile(file')
    /\ fn' = [NoFn EXCEPT !.op = "saveStatusFile", !.st = status]
    /\ pc' = "stored"
    /\ UNCHANGED <<clock, config, repo, ctx, ops, exit, used, hist>>

StoreNext ==
    \/ CallUpdateBranchStatus
    \/ CallSetCycleDates
    \/ SaveAndLoad

StoreSpec == StoreInit /\ [][StoreNext]_vars

(* ---------------- the week-based iteration (part_001) ------------------ *)

\* day 0 is 2025-01-01, a Wednesday; 0 is Monday
WeekdayOf(day) == (day + 2) % 7
isMonday(date) == WeekdayOf(date.day) = 0
\* startOfWeek(date, { weekStartsOn: 1 })
startOfWeek(date) == [valid |-> TRUE, day |-> date.day - WeekdayOf(date.day)]
addWeeks(date, n) == addDays(date, 7 * n)

\* part_001 lines 86-102
calculateBranchDates(currentDate, cycleWeeks, branchPrefix) ==
    LET monday == startOfWeek(currentDate)
        cycleMonday == IF isMonday(currentDate) THEN monday ELSE addWeeks(monday, 0 - 1)
    IN  [NoRotation EXCEPT
            !.newBaseBranch = DateBranch(branchPrefix, format(cycleMonday)),
            !.uatSourceBranch =
                DateBranch(branchPrefix, format(addWeeks(cycleMonday, 0 - cycleWeeks))),
            !.proSourceBranch =
                DateBranch(branchPrefix, format(addWeeks(cycleMonday, 0 - cycleWeeks * 2))),
            !.nextCycleDate = format(cycleMonday)]

\* part_001 lines 105-116: a Monday an even number of cycles after the
\* Monday of the week of 1 January
WeekIsExecutionDay(currentDate, cycleWeeks) ==
    LET year == format(currentDate) \div 10000
        firstMonday == startOfWeek([valid |-> TRUE, day |-> DaysBeforeYear(year)])
        weeksSinceFirst == (currentDate.day - firstMonday.day) \div 7
    IN  isMonday(currentDate) /\ weeksSinceFirst % cycleWeeks = 0

\* the dates of the runs: Monday 2025-03-10, the Tuesday after it, and
\* Monday 2025-03-17
WeekDates == {68, 69, 75}

WeekConfigs ==
    [cycleWeeks : {1, 2}, branchPrefix : {"", "rel"}, autoRemoveBranches : BOOLEAN,
     branchRetentionCycles : {0, 2}]

\* the flat status that the cycle before left, and the date branches of the
\* three cycles before
WeekOlder(cfg, date) ==
    DateBranch(cfg.branchPrefix,
               format(addWeeks(startOfWeek(date), 0 - cfg.cycleWeeks * 3)))

WeekFile(cfg, date) ==
    LET rot == calculateBranchDates(date, cfg.cycleWeeks, cfg.branchPrefix)
    IN  FlatFile(<<rot.uatSourceBranch, rot.proSourceBranch, rot.proSourceBranch,
                   WeekOlder(cfg, date)>>)

WeekRepo(cfg, date, missing, ahead) ==
    LET rot == calculateBranchDates(date, cfg.cycleWeeks, cfg.branchPrefix)
        all == (EnvBranches
                \cup {rot.uatSourceBranch, rot.proSourceBranch, WeekOlder(cfg, date)}
                \cup (IF ahead THEN {rot.newBaseBranch} ELSE {})) \ missing
    IN  [local |-> all, remote |-> all,
         head |-> [b \in all |-> [lvl |-> 0, by |-> IF b = baseBranch THEN NullBranch ELSE b]]]

\* runWorkflow is called (part_001 lines 405-408): the status is the parsed
\* file, {} when there is none
WeekInit ==
    /\ clock = 0
    /\ config \in WeekConfigs
    /\ \E day \in WeekDates, dry \in BOOLEAN, ahead \in BOOLEAN, hasFile \in BOOLEAN,
          missing \in {{}, {proBranch}} :
          LET date == [valid |-> TRUE, day |-> day]
          IN  /\ file = IF hasFile THEN WeekFile(config, date) ELSE NoFile
              /\ repo = WeekRepo(config, date, missing, ahead)
              /\ ctx = [IdleCtx EXCEPT !.cmd = "runWorkflow", !.dry = dry,
                                       !.today = format(date), !.file0 = file,
                                       !.repo0 = repo]
    /\ pc = "w_start"
    /\ status = file
    /\ ops = <<>>
    /\ exit = Running
    /\ used \in {[runs |-> 0, faults |-> f, dry |-> 0, custom |-> 0, ahead |-> 0] :
                   f \in 0..MaxFaults}
    /\ hist = <<>>
    /\ fn = NoFn

\* part_001 lines 417-450: the off-cycle merge of a day that is not an
\* execution day, or the branch names of the cycle and their verification
runWorkflow ==
    /\ pc = "w_start"
    /\ LET currentDate == parse(ctx.today)
           rot == calculateBranchDates(currentDate, config.cycleWeeks, config.branchPrefix)
           req == requiredBranches(rot)
           target == status.base.branch
           call(name, ran, ok) == Op(name, target, baseBranch, FALSE, TRUE, ran, ok)
       IN  IF ~WeekIsExecutionDay(currentDate, config.cycleWeeks)
           THEN /\ ctx' = [ctx EXCEPT !.execDay = FALSE]
                /\ IF status.base.kind = "str" /\ target # baseBranch
                   THEN \/ /\ ctx.dry
                           /\ ops' = <<call("merge", FALSE, TRUE), call("push", FALSE, TRUE)>>
                           /\ Die(0) /\ UNCHANGED <<repo, used>>
                        \/ /\ ~ctx.dry /\ branchExists(repo, target)
                           /\ ops' = <<call("merge", TRUE, TRUE), call("push", TRUE, TRUE)>>
                           /\ repo' = GitPush(GitMerge(repo, target, baseBranch), target)
                           /\ Die(0) /\ UNCHANGED used
                        \/ /\ ~ctx.dry
                           /\ \/ ~branchExists(repo, target) /\ UNCHANGED used
                              \/ FaultOK /\ used' = Fault
                           /\ ops' = <<call("merge", TRUE, FALSE)>>
                           /\ Die(GIT_OPERATION_FAILED) /\ UNCHANGED repo
                   ELSE Die(0) /\ UNCHANGED <<repo, ops, used>>
           ELSE /\ ctx' = [ctx EXCEPT !.execDay = TRUE, !.rot = rot, !.i = 1]
                /\ IF \E k \in 1..Len(req) : ~branchExists(repo, req[k])
                   THEN Die(MISSING_BRANCHES)
                   ELSE pc' = "w_phase1" /\ UNCHANGED exit
                /\ UNCHANGED <<repo, ops, used>>
    /\ UNCHANGED <<clock, config, file, status, hist, fn>>

\* the slot is set in memory and the write of the file is left out
WeekSave_noWrite(key, branch, next) ==
    \/ /\ status' = [status EXCEPT ![key] = StrSlot(branch)]
       /\ ctx' = [ctx EXCEPT !.i = @ + 1]
       /\ pc' = next
       /\ UNCHANGED <<file, exit, used>>
    \/ /\ FaultOK /\ used' = Fault
       /\ Die(FILE_NOT_FOUND)
       /\ UNCHANGED <<file, status, ctx>>

\* `newState.key = branch; if (statusPath) await saveStatusFile(statusPath,
\* newState)`: the whole state is written (part_001 lines 74-83), or the
\* write fails, the file is left as it was and the process exits
WeekSave(key, branch, next) ==
    \/ /\ status' = [status EXCEPT ![key] = StrSlot(branch)]
       /\ file' = [status' EXCEPT !.exists = TRUE]
       /\ ctx' = [ctx EXCEPT !.i = @ + 1]
       /\ pc' = next
       /\ UNCHANGED <<exit, used>>
    \/ /\ FaultOK /\ used' = Fault
       /\ Die(FILE_NOT_FOUND)
       /\ UNCHANGED <<file, status, ctx>>

\* a critical command of the phase fails: execute() exits the process
WeekFatal ==
    /\ ~ctx.dry /\ FaultOK /\ used' = Fault
    /\ Die(GIT_OPERATION_FAILED)
    /\ UNCHANGED <<file, status, ctx>>

\* phases 2 to 4 (part_001 lines 478-512): rebase of the environment branch
\* `to` onto `from`, forced push, the slot set to `from` and the status saved
WeekPhase(key, name, to, from, next) ==
    /\ \/ /\ ctx.dry
          /\ ops' = ops \o <<Op(name, to, from, FALSE, TRUE, FALSE, TRUE),
                             Op("push", to, NullBranch, FALSE, TRUE, FALSE, TRUE)>>
          /\ WeekSave(key, from, next)
          /\ UNCHANGED repo
       \/ /\ ~ctx.dry
          /\ ops' = ops \o <<Op(name, to, from, FALSE, TRUE, TRUE, TRUE),
                             Op("push", to, NullBranch, FALSE, TRUE, TRUE, TRUE)>>
          /\ repo' = GitPush(GitMerge(repo, to, from), to)
          /\ WeekSave(key, from, next)
       \/ /\ WeekFatal
          /\ \E pushFails \in BOOLEAN :
                IF pushFails
                THEN /\ ops' = ops \o <<Op(name, to, from, FALSE, TRUE, TRUE, TRUE),
                                        Op("push", to, NullBranch, FALSE, TRUE, TRUE, FALSE)>>
                     /\ repo' = GitMerge(repo, to, from)
                ELSE /\ ops' = ops \o <<Op(name, to, from, FALSE, TRUE, TRUE, FALSE)>>
                     /\ repo' = repo
    /\ UNCHANGED <<clock, config, hist, fn>>

\* phase 1 (part_001 lines 458-476): pull of the base branch, createBranch,
\* or the merge of the base branch when the new branch exists, and the push
w_phase1 ==
    /\ pc = "w_phase1"
    /\ LET new == ctx.rot.newBaseBranch
           existed == branchExists(repo, new)
           name == IF existed THEN "merge" ELSE "createBranch"
           pullOp(ran, ok) == Op("pull", baseBranch, NullBranch, FALSE, TRUE, ran, ok)
           made(ran, ok) == Op(name, new, baseBranch, FALSE, TRUE, ran, ok)
           pushOp(ran, ok) == Op("push", new, NullBranch, FALSE, TRUE, ran, ok)
           after == IF existed THEN GitMerge(repo, new, baseBranch)
                    ELSE GitCreate(repo, baseBranch, new)
       IN  \/ /\ ctx.dry
              /\ ops' = ops \o <<pullOp(FALSE, TRUE), made(FALSE, TRUE), pushOp(FALSE, TRUE)>>
              /\ WeekSave("base", new, "w_phase2")
              /\ UNCHANGED repo
           \/ /\ ~ctx.dry
              /\ ops' = ops \o <<pullOp(TRUE, TRUE), made(TRUE, TRUE), pushOp(TRUE, TRUE)>>
              /\ repo' = GitPush(after, new)
              /\ WeekSave("base", new, "w_phase2")
           \/ /\ WeekFatal
              /\ \E pushFails \in BOOLEAN :
                    IF pushFails
                    THEN /\ ops' = ops \o <<pullOp(TRUE, TRUE), made(TRUE, TRUE),
                                            pushOp(TRUE, FALSE)>>
                         /\ repo' = after
                    ELSE /\ ops' = ops \o <<pullOp(TRUE, FALSE)>>
                         /\ repo' = repo
    /\ UNCHANGED <<clock, config, hist, fn>>

w_phase2 ==
    pc = "w_phase2" /\ WeekPhase("pro", "rebase", proBranch, ctx.rot.proSourceBranch, "w_phase3")

w_phase3 ==
    pc = "w_phase3" /\ WeekPhase("pre", "rebase", preBranch, ctx.rot.uatSourceBranch, "w_phase4")

w_phase4 ==
    pc = "w_phase4" /\ WeekPhase("uat", "rebase", uatBranch, ctx.rot.uatSourceBranch, "w_rest")

\* the local branches `prefix/yyyy-MM-dd`
PrefixedBranches(r, branchPrefix) ==
    {b \in r.local : b.pfx = branchPrefix /\ b.date # NoDate}

RECURSIVE WeekDelete(_, _)
\* deleteBranch for each branch of the set, the newest first
WeekDelete(r, set) ==
    IF set = {} THEN [repo |-> r, ops |-> <<>>]
    ELSE LET b == CHOOSE x \in set : \A y \in set : y.date <= x.date
             rest == WeekDelete(GitDelete(r, b), set \ {b})
         IN  [repo |-> rest.repo,
              ops |-> <<Op("deleteBranch", b, NullBranch, FALSE, FALSE, TRUE, TRUE)>>
                      \o rest.ops]

\* GitOperations.removeOldBranches (part_001 lines 246-292): all but the
\* retentionCycles newest prefixed branches are deleted
WeekRemoveOldBranches(r, branchPrefix, cycles) ==
    LET retentionCycles == IF cycles < 1 THEN 3 ELSE cycles
        prefixed == PrefixedBranches(r, branchPrefix)
        old == {b \in prefixed :
                  Cardinality({c \in prefixed : c.date > b.date}) >= retentionCycles}
    IN  IF branchPrefix = "" THEN [repo |-> r, ops |-> <<>>]
        ELSE WeekDelete(r, old)

RECURSIVE WeekMerges(_, _, _)
\* phases 5 to 8 (part_001 lines 514-564): each merge and its push
WeekMerges(r, list, dry) ==
    IF list = <<>> THEN [repo |-> r, ops |-> <<>>]
    ELSE LET m == list[1]
             diverged == dry \/ m.always \/ HeadOf(r, m.from).lvl > HeadOf(r, m.to).lvl
             r1 == IF diverged /\ ~dry THEN GitPush(GitMerge(r, m.to, m.from), m.to) ELSE r
             rest == WeekMerges(r1, Tail(list), dry)
         IN  [repo |-> rest.repo,
              ops |-> (IF diverged
                       THEN <<Op("merge", m.to, m.from, m.always, TRUE, ~dry, TRUE),
                              Op("push", m.to, NullBranch, FALSE, TRUE, ~dry, TRUE)>>
                       ELSE <<>>) \o rest.ops]

\* phases 5 to 8, the cleanup of old branches (part_001 lines 566-577) and
\* the exit
w_rest ==
    /\ pc = "w_rest"
    /\ LET list == << [to |-> baseBranch, from |-> ctx.rot.newBaseBranch, always |-> TRUE],
                      [to |-> uatBranch, from |-> ctx.rot.uatSourceBranch, always |-> FALSE],
                      [to |-> preBranch, from |-> ctx.rot.uatSourceBranch, always |-> FALSE],
                      [to |-> proBranch, from |-> ctx.rot.proSourceBranch, always |-> FALSE] >>
           merged == WeekMerges(repo, list, ctx.dry)
           swept == IF ~ctx.dry /\ config.autoRemoveBranches /\ config.branchPrefix # ""
                    THEN WeekRemoveOldBranches(merged.repo, config.branchPrefix,
                                               IF config.branchRetentionCycles = 0 THEN 3
                                               ELSE config.branchRetentionCycles)
                    ELSE [repo |-> merged.repo, ops |-> <<>>]
       IN  \/ /\ ops' = ops \o merged.ops \o swept.ops
              /\ repo' = swept.repo
              /\ pc' = "idle"
              /\ exit' = Completed(FALSE, swept.repo)
              /\ ctx' = [ctx EXCEPT !.i = @ + 1]
              /\ UNCHANGED <<file, status, used>>
           \/ /\ WeekFatal
              /\ ops' = Append(ops, Op("merge", baseBranch, ctx.rot.newBaseBranch,
                                       TRUE, TRUE, TRUE, FALSE))
              /\ UNCHANGED repo
    /\ UNCHANGED <<clock, config, hist, fn>>

WeekNext ==
    \/ runWorkflow
    \/ w_phase1
    \/ w_phase2
    \/ w_phase3
    \/ w_phase4
    \/ w_rest

WeekSpec == WeekInit /\ [][WeekNext]_vars

(* ------------------------------ properties ----------------------------- *)

\* the calendar day a date string names
DayOf(dateString) == parse(dateString).day

\* C1: isExecutionDay is true when lastCycleDate is absent, and otherwise
\* exactly when today - lastCycleDate >= cycleDays in calendar days: false on
\* every day strictly between a boundary and boundary + cycleDays, true at
\* boundary + cycleDays and on every later day.
C1_ExecutionDay ==
    (fn.op = "isExecutionDay" /\ parse(fn.today).valid) =>
        /\ fn.last = NoDate => fn.exec
        /\ fn.last # NoDate =>
              (fn.exec <=> DayOf(fn.today) - DayOf(fn.last) >= fn.cycleDays)
        /\ \A k \in 0..(2 * MaxCycleDays) :
              (fn.last # NoDate /\ DayOf(fn.today) = DayOf(fn.last) + k) =>
                  (fn.exec <=> k >= fn.cycleDays)

\* the day that is exactly one cycle after the boundary is an execution day,
\* and the day before it is not
C1_Witness ==
    /\ fn.op = "isExecutionDay" /\ fn.last # NoDate /\ fn.cycleDays > 1
    /\ DayOf(fn.today) = DayOf(fn.last) + fn.cycleDays
    /\ fn.exec

\* what the boundary computation returned: calculateCycleDateInfo's
\* {current, next} or updateNextCycleBranches' {nextCycleDate, aheadCycleDate}
FnThrew == IF fn.op = "calculateCycleDateInfo" THEN fn.info.threw ELSE fn.rot.threw
FnCurrent == IF fn.op = "calculateCycleDateInfo" THEN fn.info.current
             ELSE fn.rot.nextCycleDate
FnNext == IF fn.op = "calculateCycleDateInfo" THEN fn.info.next
          ELSE fn.rot.aheadCycleDate
IsBoundaryCall == fn.op \in {"calculateCycleDateInfo", "updateNextCycleBranches"}

\* C2: with lastCycleDate set, both boundary computations return
\* current = lastCycleDate + floor((today - lastCycleDate) / cycleDays) * cycleDays
\* and next = current + cycleDays: current is the one date of the grid
\* lastCycleDate + k * cycleDays with current <= today < current + cycleDays.
C2_Boundary ==
    (IsBoundaryCall /\ fn.last # NoDate /\ parse(fn.today).valid) =>
        /\ ~FnThrew
        /\ parse(FnCurrent).valid /\ parse(FnNext).valid
        /\ \E steps \in (0 - MaxDay - 1)..(MaxDay + 1) :
              /\ steps * fn.cycleDays <= DayOf(fn.today) - DayOf(fn.last)
              /\ DayOf(fn.today) - DayOf(fn.last) < (steps + 1) * fn.cycleDays
              /\ DayOf(FnCurrent) = DayOf(fn.last) + steps * fn.cycleDays
        /\ DayOf(FnCurrent) <= DayOf(fn.today)
        /\ DayOf(fn.today) < DayOf(FnCurrent) + fn.cycleDays
        /\ DayOf(FnNext) = DayOf(FnCurrent) + fn.cycleDays

\* today lies strictly inside the second cycle after lastCycleDate, which is
\* in February while the boundary and the next one are in March
C2_Witness ==
    /\ fn.op = "updateNextCycleBranches" /\ fn.last # NoDate /\ parse(fn.today).valid
    /\ fn.cycleDays = 2 /\ DayOf(fn.today) - DayOf(fn.last) = 3
    /\ DayOf(FnCurrent) = DayOf(fn.last) + 2
    /\ fn.last \div 100 # FnCurrent \div 100

\* C5: chain-collapse.  If pro.target differs from uat.target before the
\* rotation, pro.target is afterwards the uat.target of before; if uat.target
\* differs from base.target, uat.target is afterwards the base.target of
\* before.
C5_ChainCollapse ==
    (fn.op = "updateNextCycleBranches" /\ ~fn.rot.threw) =>
        LET b0 == getBranchName(fn.st.base)
            u0 == getBranchName(fn.st.uat)
            p0 == getBranchName(fn.st.pro)
        IN  /\ p0 # u0 => getBranchName(fn.after.pro) = u0
            /\ u0 # b0 => getBranchName(fn.after.uat) = b0
            /\ p0 # u0 => fn.rot.proSourceBranch = u0
            /\ u0 # b0 => fn.rot.uatSourceBranch = b0

\* a status drifted by two generations: base, uat and pro all differ
C5_Witness ==
    /\ fn.op = "updateNextCycleBranches" /\ ~fn.rot.threw
    /\ getBranchName(fn.st.base) = Lit("c") /\ getBranchName(fn.st.uat) = Lit("b")
    /\ getBranchName(fn.st.pro) = Lit("a")
    /\ getBranchName(fn.after.pro) = Lit("b") /\ getBranchName(fn.after.uat) = Lit("c")
    /\ getBranchName(fn.after.pre) = Lit("c")

\* --- FullCycle claims --------------------------------------------------

Min(a, b) == IF a < b THEN a ELSE b

\* the running or last invocation entered the FullCycle flow
InFullCycle == ctx.cmd \in {"run", "workflow"} /\ ctx.execDay

\* C3: with no prior lastCycleDate the boundary is the supplied today, so the
\* new base branch that a first run is about to create is named after the
\* supplied date and aheadCycleDate is that date + cycleDays.
C3_FirstRunNamedAfterSuppliedDate ==
    (InFullCycle /\ ctx.pre.lastCycleDate = NoDate /\ parse(ctx.today).valid
       /\ Len(ctx.items) > 0) =>
        /\ ctx.rot.nextCycleDate = ctx.today
        /\ ctx.rot.newBaseBranch = DateBranch(config.branchPrefix, ctx.today)
        /\ DayOf(ctx.rot.aheadCycleDate) = DayOf(ctx.today) + config.cycleDays

\* lastCycleDate and aheadCycleDate of a status, when both are set, are
\* cycleDays apart
DatesInStep(last, ahead) ==
    (last # NoDate /\ ahead # NoDate) =>
        /\ parse(last).valid /\ parse(ahead).valid
        /\ DayOf(ahead) = DayOf(last) + config.cycleDays

\* C4: in every status that run, workflow and init produce (in memory and in
\* the status file), aheadCycleDate = lastCycleDate + cycleDays whenever both
\* are set.
C4_AheadIsLastPlusCycle ==
    /\ DatesInStep(status.lastCycleDate, status.aheadCycleDate)
    /\ DatesInStep(file.lastCycleDate, file.aheadCycleDate)

\* an init followed by a FullCycle whose boundary is in another month than
\* the boundary after it
C4_Witness ==
    /\ pc = "idle" /\ exit.saved /\ ctx.cycled /\ ctx.pre.lastCycleDate # NoDate
    /\ file.lastCycleDate # NoDate /\ file.aheadCycleDate # NoDate
    /\ file.lastCycleDate # ctx.pre.lastCycleDate
    /\ file.lastCycleDate \div 100 # file.aheadCycleDate \div 100

\* the boundary of the spec for the running invocation: cycleBoundary(today,
\* lastCycleDate, cycleDays) on the date the command was given
CycleBoundary == calculateCycleDateInfo(ctx.pre.lastCycleDate, ctx.today, config.cycleDays)

\* C6: after a FullCycle that completes, base.target = prefix + boundary.current,
\* uat.target = pre.target = uatSource, pro.target = proSource,
\* lastCycleDate = boundary.current and aheadCycleDate = boundary.next.
C6_StatusAfterFullCycle ==
    (ctx.cycled /\ parse(ctx.today).valid) =>
        /\ getBranchName(status.base) = DateBranch(config.branchPrefix, CycleBoundary.current)
        /\ getBranchName(status.uat) = ctx.rot.uatSourceBranch
        /\ getBranchName(status.pre) = ctx.rot.uatSourceBranch
        /\ getBranchName(status.pro) = ctx.rot.proSourceBranch
        /\ status.lastCycleDate = CycleBoundary.current
        /\ status.aheadCycleDate = CycleBoundary.next

\* C7: over the FullCycles saved so far, base.target of cycle n is uat.target
\* and pre.target of cycle n + 1 and pro.target of cycle n + 2; uat and pro
\* of a cycle are the base and the uat of the status before it.
C7_GenerationsShift ==
    /\ \A n \in 1..(Len(hist) - 1) :
          /\ hist[n + 1].uat = hist[n].base
          /\ hist[n + 1].pre = hist[n].base
          /\ hist[n + 1].pro = hist[n].uat
    /\ \A n \in 1..(Len(hist) - 2) : hist[n + 2].pro = hist[n].base
    /\ (pc = "idle" /\ exit.saved /\ ctx.cycled) =>
          /\ getBranchName(status.uat) = getBranchName(ctx.pre.base)
          /\ getBranchName(status.pro) = getBranchName(ctx.pre.uat)

\* three FullCycles, the first on a status drifted by more than a generation
C7_Witness ==
    /\ Len(hist) = 3
    /\ hist[1].base # hist[2].base /\ hist[2].base # hist[3].base
    /\ hist[1].uat = Lit("t3") /\ hist[1].pro = Lit("t2")
    /\ hist[3].pro = hist[1].base /\ hist[3].uat = hist[2].base

\* the part of the flow up to the verification of the required branches
BeforeGate == {"create_fetch", "create_pull", "create_verify"}

RequiredMissing ==
    LET rot == updateNextCycleBranches(config.branchPrefix, status, ctx.today,
                                       config.cycleDays, Now)
        req == requiredBranches(rot)
    IN  \E k \in 1..Len(req) : ~Exists(repo, req[k])

Mutating(o) == o.op \in {"createBranch", "merge", "push", "deleteBranch"}

\* C8: when a required branch (baseBranch, uatBranch, preBranch, proBranch,
\* uatSource, proSource) exists neither locally nor on the remote, the
\* FullCycle flow does not pass the gate: it ends with MissingBranch, with no
\* create, merge, push or delete issued and the status file unchanged.  (A
\* step in which the backend itself fails is left aside.)
C8_MissingBranchGate ==
    [][ (pc \in BeforeGate /\ RequiredMissing /\ used' = used) =>
           /\ pc' \in BeforeGate \/ (pc' = "idle" /\ exit'.code = MISSING_BRANCHES)
           /\ file' = file
           /\ \A j \in 1..Len(ops') : ~Mutating(ops'[j]) ]_vars

\* the branch the k-th step of the flow writes
StepTarget(k) ==
    IF k = 1 THEN ctx.rot.newBaseBranch
    ELSE IF k = 2 THEN uatBranch
    ELSE IF k = 3 THEN preBranch
    ELSE proBranch

C10_FailureAborts ==
    InFullCycle =>
        \A j \in 3..Min(Len(ops), 10) :
            (ops[j].ran /\ ~ops[j].ok) =>
                /\ Len(ops) = j
                /\ pc = "idle"
                /\ exit.code = GIT_OPERATION_FAILED
                /\ ~exit.success

(* ------------------ the sweep and the persisted status ------------------ *)

CompletedStep(o) == Mutating(o) /\ o.ran /\ o.ok

\* C11: in `run` the status is written to the status file after every phase
\* that changes it, so when a run is aborted by a critical failure after
\* completed steps, the status file holds the status as the run had it.
C11_PersistedAfterEachPhase ==
    (ctx.cmd = "run" /\ pc = "idle" /\ exit.code = GIT_OPERATION_FAILED
       /\ \E j \in 1..Len(ops) : CompletedStep(ops[j])) =>
        file = convertToSaveFormat(status)

InSweep == pc \in {"merge_item", "merge_push", "merge_end"}

\* the fingerprint the slot of item k had when the sweep began
Recorded(k) == ctx.sweep[ctx.items[k].key].commit

SameHash(k) ==
    LET commitInfo == getLatestCommitInfo(repo, ctx.items[k].from)
    IN  commitInfo # NoCommit /\ commitInfo = Recorded(k)

\* C12: in the sweep, a slot whose source branch has the commit that the
\* slot records as its fingerprint gets no merge and no push: its
\* evaluation issues no backend call and goes on to the next slot.
C12_FingerprintSkip ==
    [][ (pc = "merge_item" /\ SameHash(ctx.i)) =>
            /\ ops' = ops
            /\ pc' \in {"merge_item", "merge_end"}
            /\ ctx'.i = ctx.i + 1 ]_vars

SweepMerges == {j \in 1..Len(ops) : ops[j].op = "merge" /\ ~ops[j].critical}

\* a sweep on the repository that merged the base slot and skipped the
\* three other slots, whose fingerprints were recorded
C12_Witness ==
    /\ pc = "merge_end" /\ ~ctx.dry /\ Len(ctx.items) = 4
    /\ \A k \in 2..4 : Recorded(k) # NoCommit
    /\ \E j \in SweepMerges : ops[j].to = ctx.items[1].to /\ ops[j].ran /\ ops[j].ok
    /\ \A j \in SweepMerges : ops[j].to = ctx.items[1].to

\* the sweep is over: at its end, or after the exit that follows a failed merge
SweepOver == pc = "merge_end" \/ (pc = "idle" /\ ctx.hasError)

\* C13: in the sweep a failed merge does not stop the loop: when the sweep
\* is over every slot has been evaluated, and at the end of the loop every
\* slot either got its merge or has a source that shows the fingerprint the
\* slot had.
C13_SweepGoesOn ==
    /\ SweepOver => ctx.i = Len(ctx.items) + 1
    /\ pc = "merge_end" =>
           \A k \in 1..Len(ctx.items) :
              \/ \E j \in SweepMerges : /\ ops[j].to = ctx.items[k].to
                                         /\ ops[j].from = ctx.items[k].from
              \/ sameCommitInfo(getLatestCommitInfo(repo, ctx.items[k].from),
                                ctx.items[k].commit)

\* a sweep in which the merge of a slot failed and the merge of a later slot
\* ran on the repository
C13_Witness ==
    /\ pc = "idle" /\ ctx.hasError /\ ~ctx.dry
    /\ \E j, k \in SweepMerges :
          /\ j < k /\ ops[j].ran /\ ~ops[j].ok
          /\ ops[k].ran /\ ops[k].ok /\ ops[k].to # ops[j].to

\* C14: when the merge of a slot of the sweep fails or reports a conflict,
\* recovered or not, the run ends with a failure: a non-zero exit code and no
\* report of success.
C14_MergeFailureFailsRun ==
    (pc = "idle" /\ ctx.cmd = "run"
       /\ \E j \in SweepMerges : ops[j].ran /\ (~ops[j].ok \/ ops[j].conflict)) =>
        /\ exit.code > 0
        /\ ~exit.success

\* C15: when the sweep ends with a failed slot, the fingerprints refreshed
\* for the slots that succeeded are in the status file.
C15_PartialProgressPersisted ==
    (pc = "idle" /\ ctx.cmd = "run" /\ ctx.hasError) =>
        \A k \in {"base", "uat", "pre", "pro"} :
            status[k].commit # ctx.sweep[k].commit =>
                file[k].commit = status[k].commit

\* C16: when a merge step ends in a conflict, reported in the result of the
\* merge or raised as an error by the pull or the merge command, the backend
\* has received a merge abort, or a hard reset after an abort that failed.
C16_ConflictRecovery ==
    \A j \in 1..Len(ops) :
        (ops[j].op = "merge" /\ ops[j].conflict) =>
            ops[j].recover \in {"abort", "reset"}

\* C17: a `run` on an off-cycle day that follows a completed off-cycle `run`,
\* with no commit made in between, issues no merge and no push (no call that
\* changes the repository) and leaves the status file as it was.
C17_IdempotentRerun ==
    (ctx.cmd = "run" /\ ctx.rerun /\ ~ctx.execDay) =>
        /\ \A j \in 1..Len(ops) : ~Mutating(ops[j])
        /\ file = ctx.file0

\* a second run on the repository, completed, whose four slots had the
\* fingerprints recorded by the first one
C17_Witness ==
    /\ ctx.cmd = "run" /\ ctx.rerun /\ ~ctx.execDay /\ ~ctx.dry
    /\ pc = "idle" /\ exit.saved /\ Len(ctx.items) = 4
    /\ \A k \in {"base", "uat", "pre", "pro"} : ctx.file0[k].commit # NoCommit

(* ------------------------------ dry run -------------------------------- *)

\* C18: a `run` in dry-run mode, on an execution day or not, never writes
\* the status file: the file is as it was when the run started.
C18_DryRunKeepsStatusFile ==
    (ctx.cmd = "run" /\ ctx.dry) => file = ctx.file0

ChangesRepository(o) ==
    o.op \in {"createBranch", "emptyCommit", "merge", "push", "deleteBranch", "checkout"}

\* C19: in dry-run mode no command performs a backend operation that
\* changes the repository: no branch creation, commit, merge, push, deletion
\* or checkout reaches it, the repository stays as it was when the command
\* started, and each such step reports success.
C19_DryRunKeepsRepository ==
    ctx.dry =>
        /\ \A j \in 1..Len(ops) :
              ChangesRepository(ops[j]) => (~ops[j].ran /\ ops[j].ok)
        /\ pc # "idle" => repo = ctx.repo0

(* ------------------------------ retention ------------------------------ *)

\* the calls issued by the step being taken
NewOps == SubSeq(ops', Len(ops) + 1, Len(ops'))

\* C20: the retention sweep splits the tracked list at the cutoff, now minus
\* branchRetentionCycles * cycleDays days: an entry made before the cutoff
\* gets a deletion when its branch exists and leaves the list, whether or
\* not the branch was deleted; an entry made at or after the cutoff stays in
\* the list and gets no deletion.
C20_RetentionPartition ==
    [][ (pc = "retention" /\ config.autoRemoveBranches /\ status.hasBranches) =>
          LET cutoff == Now - config.branchRetentionCycles * config.cycleDays
              InList(e, list) == \E m \in 1..Len(list) : list[m] = e
              Deleted(b) == \E n \in 1..Len(NewOps) :
                                NewOps[n].op = "deleteBranch" /\ NewOps[n].to = b
          IN  \A k \in 1..Len(status.branches) :
                LET e == status.branches[k]
                IN  IF e.time < cutoff
                    THEN /\ ~InList(e, status'.branches)
                         /\ branchExists(repo, e.branch) => Deleted(e.branch)
                    ELSE /\ InList(e, status'.branches)
                         /\ ~Deleted(e.branch)
                         /\ Exists(repo, e.branch) => Exists(repo', e.branch) ]_vars

\* a retention sweep on the repository that deleted the branch of an old
\* entry and kept an entry made exactly at the cutoff
C20_Witness ==
    /\ pc = "save" /\ ctx.cycled /\ ~ctx.dry /\ config.autoRemoveBranches
    /\ \E j \in 1..Len(ops) : ops[j].op = "deleteBranch" /\ ops[j].ran
                                /\ ~Exists(repo, ops[j].to)
    /\ \E m \in 1..Len(status.branches) :
          status.branches[m].time = Now - config.branchRetentionCycles * config.cycleDays

AfterSweep == pc \in {"save", "idle"} /\ ctx.cycled

\* C21: the retention sweep deletes a branch and prunes the tracked list only
\* after a FullCycle, with autoRemoveBranches true and a branchPrefix that is
\* not empty: otherwise no deletion is issued and the tracked list stays as
\* it was loaded.
C21_RetentionGate ==
    (AfterSweep /\ ~(config.autoRemoveBranches /\ config.branchPrefix # "")) =>
        /\ \A j \in 1..Len(ops) : ops[j].op # "deleteBranch"
        /\ status.branches = ctx.pre.branches

\* C22: the retention sweep never deletes baseBranch, uatBranch, preBranch or
\* proBranch, also when an old tracked entry carries the name of one of them.
C22_EnvironmentBranchesKept ==
    /\ \A j \in 1..Len(ops) : ops[j].op = "deleteBranch" => ops[j].to \notin EnvBranches
    /\ AfterSweep => \A b \in EnvBranches : Exists(ctx.repo0, b) => Exists(repo, b)

\* C27: with a branchRetentionCycles below 1, zero or negative, the sweep
\* does what it does with branchRetentionCycles = 3: the same deletions, the
\* same tracked list.
C27_RetentionDefault ==
    (AfterSweep /\ config.branchRetentionCycles < 1) =>
        LET ref == RetentionSweep([config EXCEPT !.branchRetentionCycles = 3],
                                  ctx.pre, ctx.repo0, Now, ctx.dry)
        IN  /\ status.branches = ref.status.branches
            /\ repo = ref.repo
            /\ ops = ref.ops

(* ---------------------------- the status file --------------------------- *)

IsFlat(f) == f.exists /\ \A k \in {"base", "uat", "pre", "pro"} : f[k].kind = "str"

\* C23: a status file whose slots are flat strings, loaded and saved with no
\* change of target (an off-cycle `run`), is written back with flat strings
\* and the same four branch names, and loads again to the same names.
C23_LegacyRoundTrip ==
    (pc = "idle" /\ exit.saved /\ ctx.cmd = "run" /\ ~ctx.execDay
       /\ IsFlat(ctx.file0)) =>
        /\ IsFlat(file)
        /\ \A k \in {"base", "uat", "pre", "pro"} :
              /\ file[k].branch = ctx.file0[k].branch
              /\ getBranchName(loadStatusFile(file)[k]) = ctx.file0[k].branch

(* --------------------------- the custom date ---------------------------- *)

BadDate == ctx.cmd \in {"run", "workflow"} /\ ctx.supplied # NoDate /\ ~parse(ctx.supplied).valid

\* C24: a command given a custom date that does not parse ends with the
\* InvalidDate exit code, has issued no backend call, and leaves the
\* in-memory status and the status file as they were; it never enters the
\* OffCycle or the FullCycle flow (the positions past the handler's first
\* step, where the date has been read, are those of a flow).
C24_InvalidDateRejected ==
    BadDate =>
        /\ pc \in {"idle", "create_fetch", "merge_fetch"}
        /\ pc = "idle" => exit.code = INVALID_DATE
        /\ ops = <<>>
        /\ status = ctx.pre /\ file = ctx.file0

(* -------------------------- the off-cycle sweep ------------------------- *)

OffCycleRun == ctx.cmd = "run" /\ ~ctx.execDay

\* C25: on a non-execution day `run` issues no merge and no push against
\* uatBranch, preBranch or proBranch: its only merge is the one from the root
\* base branch into the recorded base target.
C25_OffCycleBaseOnly ==
    OffCycleRun =>
        \A j \in 1..Len(ops) :
            ops[j].op \in {"merge", "push"} =>
                /\ ops[j].to \notin {uatBranch, preBranch, proBranch}
                /\ ops[j].op = "merge" => ops[j].from = baseBranch

(* ------------------------- loading the status --------------------------- *)

\* C26: the status a command loads has all four slots, whatever the status
\* file holds and when there is none; an `init` started with no status file
\* whose backend calls all succeeded ends with the status file created.
C26_LoadedStatusHasSlots ==
    /\ ctx.cmd \in {"run", "workflow", "init"} =>
          \A k \in {"base", "uat", "pre", "pro"} :
              ctx.pre[k].kind # "undef" /\ status[k].kind # "undef"
    /\ (ctx.cmd = "init" /\ pc = "idle" /\ ~ctx.dry /\ ~ctx.file0.exists
          /\ \A j \in 1..Len(ops) : ops[j].ok) => file.exists

(* -------------------------- the tracked branches ------------------------ *)

Tracked(f) == IF f.exists /\ f.hasBranches THEN f.branches ELSE <<>>

\* the backend created or updated branch b in the current invocation
Written(b) ==
    \E j \in 1..Len(ops) :
        /\ ops[j].op \in {"createBranch", "merge"} /\ ops[j].to = b
        /\ ops[j].ran /\ ops[j].ok

\* an entry of the persisted list that the current invocation added
NewEntry(e) ==
    /\ \E i \in 1..Len(Tracked(file)) : Tracked(file)[i] = e
    /\ \A j \in 1..Len(Tracked(ctx.file0)) : Tracked(ctx.file0)[j] # e

\* C28: the persisted tracked list never holds two entries with the same
\* branch name, and an entry that an invocation added names a branch that the
\* backend created or merged into, successfully, in that invocation.
C28_TrackedOncePerCycle ==
    /\ \A i, j \in 1..Len(Tracked(file)) :
          Tracked(file)[i].branch = Tracked(file)[j].branch => i = j
    /\ (pc = "idle" /\ ctx.cmd # "none") =>
          \A i \in 1..Len(Tracked(file)) :
              NewEntry(Tracked(file)[i]) => Written(Tracked(file)[i].branch)

(* ------------------------ the steps of a FullCycle ---------------------- *)

\* the calls issued by the loop of createBranches: they precede the sweep
InCreateLoop == InFullCycle /\ pc \in {"create_item", "create_push", "create_state"}

\* C29: in a FullCycle the new date-named base branch is created from, or
\* merged with, the configured root base branch.
C29_NewBaseFromRoot ==
    InCreateLoop =>
        \A j \in 1..Len(ops) :
            (ops[j].op \in {"createBranch", "merge"} /\ ops[j].to = ctx.rot.newBaseBranch)
                => ops[j].from = baseBranch

\* C30: in a FullCycle the merge into uatBranch is issued with fast-forward
\* allowed and the merges into preBranch and proBranch with a forced merge
\* commit: the mode the backend receives is the mode declared for the step.
C30_DeclaredMergeMode ==
    InCreateLoop =>
        \A j \in 1..Len(ops) : \A k \in 1..Len(ctx.items) :
            (ops[j].op = "merge" /\ ctx.items[k].type = "merge"
               /\ ops[j].to = ctx.items[k].to /\ ops[j].from = ctx.items[k].from)
                => ops[j].noFastForward = ctx.items[k].noFastForward

(* ------------------------ the recorded fingerprints --------------------- *)

\* the last two backend calls are a merge that integrated its source and a
\* push that succeeded
SyncConfirmed(o) ==
    /\ Len(o) >= 2
    /\ o[Len(o) - 1].op = "merge" /\ o[Len(o) - 1].ran /\ o[Len(o) - 1].ok
    /\ ~o[Len(o) - 1].conflict
    /\ o[Len(o)].op = "push" /\ o[Len(o)].ran /\ o[Len(o)].ok

\* C31: in the merge sweep of a run that is not dry, the recorded fingerprint
\* of a slot changes only in a step whose merge integrated the source with no
\* conflict and whose push succeeded.
C31_FingerprintAfterSync ==
    [][ (pc = "merge_push" /\ ~ctx.dry) =>
            \A k \in {"base", "uat", "pre", "pro"} :
                status'[k].commit # status[k].commit => SyncConfirmed(ops') ]_vars

(* ------------------- the phases of an execution-day run ----------------- *)

RunFullCycle == ctx.cmd = "run" /\ ctx.execDay /\ pc # "idle"

C33_SetThenGetFingerprint ==
    fn.op = "updateBranchStatus" =>
        extractBranchLatestCommit(status[fn.slot]) =
            IF fn.commit # NoCommit THEN fn.commit
            ELSE extractBranchLatestCommit(fn.before)

LoadedRich == ctx.file0.exists /\ IsRichShape(ctx.file0)

\* C34: for a status loaded in the richer shape, one lacking some of the
\* uat, pre and pro slots included, and updated in memory, saving and
\* loading again gives the target and the fingerprint of all four slots, the
\* two cycle dates and the tracked list that the in-memory status had.
C34_RichSaveLossless ==
    (pc = "stored" /\ LoadedRich) =>
        /\ \A k \in {"base", "uat", "pre", "pro"} :
              /\ getBranchName(status[k]) = getBranchName(fn.st[k])
              /\ extractBranchLatestCommit(status[k]) = extractBranchLatestCommit(fn.st[k])
        /\ status.lastCycleDate = fn.st.lastCycleDate
        /\ status.aheadCycleDate = fn.st.aheadCycleDate
        /\ Tracked(file) = (IF fn.st.hasBranches THEN fn.st.branches ELSE <<>>)

(* ----------------------- retention and the targets ---------------------- *)

\* C35: with branchRetentionCycles >= 1 the retention sweep deletes no branch
\* that is the target of a slot of the status of the same run.
C35_TargetsNotSwept ==
    (AfterSweep /\ config.branchRetentionCycles >= 1) =>
        \A j \in 1..Len(ops) : \A k \in {"base", "uat", "pre", "pro"} :
            ops[j].op = "deleteBranch" => ops[j].to # getBranchName(status[k])

(* ---------------------- one FullCycle per boundary ---------------------- *)

\* C36: the FullCycle of a `run` persists its boundary as lastCycleDate, the
\* date d of that run lies in [lastCycleDate, lastCycleDate + cycleDays), an
\* off-cycle run leaves lastCycleDate as it is, and once a FullCycle has been
\* persisted a `run` with a date before lastCycleDate + cycleDays takes the
\* OffCycle flow: no second FullCycle within the cycle.
C36_OneFullCyclePerBoundary ==
    [][ /\ (pc = "idle" /\ ctx'.cmd = "run" /\ pc' # "idle" /\ hist # <<>>
             /\ file.lastCycleDate # NoDate /\ parse(ctx'.today).valid
             /\ DayOf(ctx'.today) < DayOf(file.lastCycleDate) + config.cycleDays)
               => ~ctx'.execDay /\ pc' = "merge_fetch"
        /\ (pc = "save" /\ ctx.cmd = "run" /\ ctx.cycled) =>
              /\ file'.lastCycleDate = ctx.rot.nextCycleDate
              /\ parse(file'.lastCycleDate).valid
              /\ (ctx.pre.lastCycleDate # NoDate) =>
                    /\ DayOf(file'.lastCycleDate) <= DayOf(ctx.today)
                    /\ DayOf(ctx.today) < DayOf(file'.lastCycleDate) + config.cycleDays
        /\ (pc = "save" /\ ctx.cmd = "run" /\ ~ctx.cycled) =>
              file'.lastCycleDate = file.lastCycleDate ]_vars

\* a `run` on the last day of the cycle that a persisted FullCycle opened
C36_Witness ==
    /\ ctx.cmd = "run" /\ pc = "merge_fetch" /\ ~ctx.execDay /\ hist # <<>>
    /\ ctx.supplied = NoDate
    /\ DayOf(ctx.today) = DayOf(file.lastCycleDate) + config.cycleDays - 1
    /\ Targets(status) = hist[Len(hist)]

(* ------------------------- the date of the last cycle ------------------- *)

\* C37: every write of the status file leaves lastCycleDate where it was or
\* moves it forward, whatever command writes it and whatever date it is given.
C37_LastCycleDateMonotone ==
    [][ (file.exists /\ file.lastCycleDate # NoDate /\ file' # file) =>
            /\ file'.lastCycleDate # NoDate
            /\ DayOf(file'.lastCycleDate) >= DayOf(file.lastCycleDate) ]_vars

(* ------------------ the boundary around any today ----------------------- *)

\* C38: with lastCycleDate set, earlier than, equal to or later than today,
\* the boundary computed brackets today, current <= today < next, and lies a
\* whole number of cycles from lastCycleDate.
C38_BoundaryBrackets ==
    (IsBoundaryCall /\ fn.last # NoDate /\ parse(fn.today).valid) =>
        /\ ~FnThrew
        /\ DayOf(FnCurrent) <= DayOf(fn.today)
        /\ DayOf(fn.today) < DayOf(FnNext)
        /\ (DayOf(FnCurrent) - DayOf(fn.last)) % fn.cycleDays = 0

\* lastCycleDate is four days after today and the cycle has three days: the
\* boundary is two cycles before lastCycleDate
C38_Witness ==
    /\ fn.op = "calculateCycleDateInfo" /\ fn.last # NoDate /\ parse(fn.today).valid
    /\ fn.cycleDays = 3 /\ DayOf(fn.last) - DayOf(fn.today) = 4
    /\ DayOf(FnCurrent) = DayOf(fn.last) - 6
    /\ DayOf(FnNext) = DayOf(fn.today) + 1

(* ----------------------- the frame of an off-cycle run ------------------ *)

\* C39: an off-cycle `run` leaves the target of every slot, lastCycleDate,
\* aheadCycleDate and the tracked list as they were loaded, in memory and in
\* the status file it writes, and creates and deletes no branch.
C39_OffCycleFrame ==
    OffCycleRun =>
        /\ Targets(status) = Targets(ctx.pre)
        /\ status.lastCycleDate = ctx.pre.lastCycleDate
        /\ status.aheadCycleDate = ctx.pre.aheadCycleDate
        /\ status.hasBranches = ctx.pre.hasBranches
        /\ status.branches = ctx.pre.branches
        /\ \A j \in 1..Len(ops) : ops[j].op \notin {"createBranch", "deleteBranch"}
        /\ (pc = "idle" /\ exit.saved) =>
              /\ Targets(loadStatusFile(file)) = Targets(ctx.pre)
              /\ file.lastCycleDate = ctx.file0.lastCycleDate
              /\ file.aheadCycleDate = ctx.file0.aheadCycleDate
              /\ Tracked(file) = Tracked(ctx.file0)
        /\ pc # "idle" =>
              repo.local \cup repo.remote = ctx.repo0.local \cup ctx.repo0.remote

\* an off-cycle run that merged, recorded a new fingerprint and saved
C39_Witness ==
    /\ OffCycleRun /\ pc = "idle" /\ exit.saved /\ ~ctx.dry
    /\ \E j \in 1..Len(ops) : ops[j].op = "merge" /\ ops[j].ran /\ ops[j].ok
    /\ \E k \in {"base", "uat", "pre", "pro"} : status[k].commit # ctx.pre[k].commit
    /\ file # ctx.file0


WeekPhaseName(k) == <<"w_phase1", "w_phase2", "w_phase3", "w_phase4">>[k]

\* the slot that phase k of runWorkflow sets, and the target it gives it
WeekPhaseKey(k) == <<"base", "pro", "pre", "uat">>[k]
WeekPhaseTarget(k) ==
    <<ctx.rot.newBaseBranch, ctx.rot.proSourceBranch, ctx.rot.uatSourceBranch,
      ctx.rot.uatSourceBranch>>[k]

====
